---- MODULE Spec2Model ----
(***************************************************************************)
(* Conversation-context and persona-state subsystem of the qwen-ai-chat    *)
(* plugin: the token estimator, the conversation store, the group session  *)
(* layer and the persona manager, each modelled from its TypeScript source *)
(* as a state machine over the maps the classes own.                       *)
(*                                                                         *)
(* Text is a sequence of characters; a character is a one-element token.   *)
(* The CJK ideographs U+4F60 and U+597D are written "U4F60" and "U597D",   *)
(* and Chinese alias strings are written in pinyin with a "zh_" prefix     *)
(* (the module is ASCII only).  Date.now() is the variable now; all reads  *)
(* of the clock inside one handler see the same value, and the clock only  *)
(* moves forward.                                                          *)
(***************************************************************************)
EXTENDS Integers, Sequences, FiniteSets, TLC

VARIABLES
    now,            \* Date.now()
    config,         \* EnhancedConfig given to the managers' constructors
    conversations,  \* ConversationManager.conversations : sessionId -> context
    added,          \* history: messages added to a key's context since it was
                    \* created or cleared
    accessed,       \* history: time of the last call on a key, -1 if none
    groupSessions,  \* GroupSessionManager.groupSessions : groupId -> context
    userGroupMap,   \* GroupSessionManager.userGroupMap : userId -> set of groupIds
    personas,       \* PersonaManager.personas : built-in name -> PersonaConfig
    userPersonas,   \* PersonaManager.userPersonas : custom name -> PersonaConfig
    userStates,     \* PersonaManager.userStates : userId -> persona name
    personaAliases, \* PersonaManager.personaAliases : alias -> built-in name
    ret,            \* the last call: its name, arguments and return value
    text,           \* token estimator: the input string
    est,            \* token estimator: the value returned for text
    cache,          \* CacheManager.cache : key -> CacheItem
    accessCount,    \* CacheManager.accessCount : entries <<key, count>> in
                    \* the Map's iteration order
    live,           \* history: the set(namespace, id, value, ttl) calls whose
                    \* entry was not deleted, cleared, overwritten or evicted
    requests,       \* chat / ask handlers suspended at an await, in order of
                    \* arrival
    apiError,       \* ErrorHandler: the error object handleApiError is given
    metrics,        \* PerformanceMonitor.metrics : command -> list of metrics
    stats,          \* PerformanceMonitor.stats : command -> PerformanceStats
    recorded,       \* history: per command, the number of recordMetric calls
                    \* and the sum of their durations
    saveQueue,      \* MemoryPersistenceManager.saveQueue, in insertion order
    saveInterval,   \* MemoryPersistenceManager.saveInterval: TRUE while the
                    \* timeout it holds is pending
    flushes,        \* timer callbacks of saveUserMemoryAsync suspended at an
                    \* await: their position in saveQueue and in saveUserMemory
    unsaved,        \* history: users with a saveUserMemoryAsync call that no
                    \* saveUserMemory has read the memory after
    saveCalls,      \* history: the number of saveUserMemoryAsync calls
    dbConversations, \* ConversationManagerWithDB.conversations
    database,       \* table conversation_history : sessionId -> record
    loaded,         \* history: per key, the context the last call on the key
                    \* loaded from the table, Null if that call was no load
    models,         \* ModelManager.models : name -> ModelConfig
    currentModel,   \* ModelManager.currentModel
    retryRun        \* one call of retry(fn, maxRetries, delayMs): its
                    \* arguments, loop index, position, lastError and outcome,
                    \* with the history of fn's rejections and of the delays

convVars == <<conversations, added, accessed>>
groupVars == <<groupSessions, userGroupMap>>
personaVars == <<personas, userPersonas, userStates, personaAliases>>
estVars == <<text, est>>
cacheVars == <<cache, accessCount, live>>
cmdVars == <<requests>>
saveVars == <<saveQueue, saveInterval, flushes, unsaved, saveCalls>>
dbVars == <<dbConversations, database, loaded>>
modelVars == <<models, currentModel>>
utilVars == <<apiError, metrics, stats, recorded, saveVars, dbVars, modelVars,
              retryRun>>
vars == <<now, config, conversations, added, accessed,
          groupSessions, userGroupMap,
          personas, userPersonas, userStates, personaAliases, ret, text, est,
          cache, accessCount, live, requests,
          apiError, metrics, stats, recorded,
          saveQueue, saveInterval, flushes, unsaved, saveCalls,
          dbConversations, database, loaded, models, currentModel, retryRun>>

-----------------------------------------------------------------------------
(* Bounds of the model *)

MaxTime == 2
MaxTextLen == 4
MaxBudget == 3
HistoryLength == 1
IdleTimeout == 1
MaxAdded == 3
MaxGroupMessages == 3
MaxMemberMessages == 1

(* Program constants *)

DefaultContextTimeout == 3600000
DefaultMaxHistoryLength == 10
DefaultMaxContextTokens == 4000
MaxMembers == 100

-----------------------------------------------------------------------------
(* Characters and texts *)

CJK == {"U4F60", "U597D"}
Letters == {"h", "e", "l", "o"}
Others == {" "}
Alphabet == CJK \cup Letters \cup Others

NiHaoHello == <<"U4F60", "U597D", "h", "e", "l", "l", "o">>

RECURSIVE SeqsUpTo(_, _)
SeqsUpTo(S, n) ==
    IF n = 0 THEN {<< >>}
    ELSE LET shorter == SeqsUpTo(S, n - 1)
         IN shorter \cup {Append(s, c) : s \in shorter, c \in S}

CharClasses == {"U4F60", "h", " "}
TextInputs == SeqsUpTo(CharClasses, MaxTextLen) \cup {NiHaoHello}

-----------------------------------------------------------------------------
(* Token estimator *)

chineseChars(t) == Cardinality({i \in 1..Len(t) : t[i] \in CJK})

\* text.match(/[a-zA-Z]+/g): one match per maximal run of letters
englishWords(t) ==
    Cardinality({i \in 1..Len(t) :
        t[i] \in Letters /\ (i = 1 \/ t[i - 1] \notin Letters)})

otherChars(t) == Len(t) - chineseChars(t) - englishWords(t)

\* Math.ceil(x / 10) for an integer x >= 0
CeilTenths(x) == (x + 9) \div 10

\* Math.ceil(chineseChars * 2 + englishWords * 1.3 + otherChars * 0.5)
estimateTokens(t) ==
    CeilTenths(20 * chineseChars(t) + 13 * englishWords(t) + 5 * otherChars(t))

-----------------------------------------------------------------------------
(* Configuration: `x || d` takes d when x is 0 *)

timeout == IF config.contextTimeout = 0
           THEN DefaultContextTimeout ELSE config.contextTimeout

maxContextTokens == IF config.maxContextTokens = 0
                    THEN DefaultMaxContextTokens ELSE config.maxContextTokens

configMaxHistoryLength == IF config.maxHistoryLength = 0
                          THEN DefaultMaxHistoryLength ELSE config.maxHistoryLength

defaultPersona == IF config.defaultPersona = ""
                  THEN "assistant" ELSE config.defaultPersona

\* every budget with the history enabled, one budget with it disabled
Configs ==
    {c \in [enableContext : BOOLEAN,
            defaultPersona : {"default"},
            maxContextTokens : 0..MaxBudget,
            maxHistoryLength : {HistoryLength},
            contextTimeout : {IdleTimeout}] :
        c.enableContext \/ c.maxContextTokens = MaxBudget}

-----------------------------------------------------------------------------
(* Conversation store *)

Keys == {"u1", "u2"}
Contents == {<<" ">>, <<"U4F60">>}
NewMessages ==
    {[role |-> "user", content |-> <<"U4F60">>],
     [role |-> "assistant", content |-> <<" ">>]}
SystemPrompts == {<< >>, <<"U4F60", "U597D">>}
PersonaNames == {"catgirl"}

NoRet == [op |-> "none"]

\* a ChatMessage stamped by the store
Message(role, content) ==
    [role |-> role, content |-> content,
     timestamp |-> now, tokens |-> estimateTokens(content)]

FreshContext(sessionId) ==
    [sessionId |-> sessionId,
     messages |-> << >>,
     persona |-> defaultPersona,
     createdAt |-> now,
     updatedAt |-> now,
     maxHistoryLength |-> configMaxHistoryLength]

\* the test without the expiry clause
StaleNeverExpires(convs, sessionId) == sessionId \notin DOMAIN convs

\* !context || now - context.updatedAt > timeout
Stale(convs, sessionId) ==
    sessionId \notin DOMAIN convs \/ now - convs[sessionId].updatedAt > timeout

\* the store after getConversation(sessionId); the context returned is
\* getConversation(convs, sessionId)[sessionId]
getConversation(convs, sessionId) ==
    IF Stale(convs, sessionId)
    THEN (sessionId :> FreshContext(sessionId)) @@ convs
    ELSE convs

\* the history of added messages after getConversation(sessionId)
addedAfterGet(sessionId) ==
    IF Stale(conversations, sessionId)
    THEN [added EXCEPT ![sessionId] = << >>] ELSE added

\* s.slice(-n) for n > 0
SliceLast(s, n) ==
    IF Len(s) <= n THEN s ELSE SubSeq(s, Len(s) - n + 1, Len(s))

\* s.slice(0, n): what a trim from the wrong end would keep
SliceFirst(s, n) ==
    IF Len(s) <= n THEN s ELSE SubSeq(s, 1, n)

trimHistoryOldest(messages, maxMessages) ==
    IF Len(messages) > maxMessages THEN SliceFirst(messages, maxMessages) ELSE messages

\* if (messages.length > maxMessages) messages = messages.slice(-maxMessages)
trimHistory(messages, maxMessages) ==
    IF Len(messages) > maxMessages THEN SliceLast(messages, maxMessages) ELSE messages

\* message.tokens || this.estimateTokens(message.content)
tokensOf(message) ==
    IF message.tokens # 0 THEN message.tokens ELSE estimateTokens(message.content)

\* the loop of truncateMessages at index i (1-based: the source's i + 1)
RECURSIVE truncateLoop(_, _, _, _, _)
truncateLoop(messages, maxTokens, i, totalTokens, result) ==
    IF i < 1 THEN result
    ELSE LET message == messages[i]
             tokens == tokensOf(message)
         IN  IF totalTokens + tokens > maxTokens /\ i > 1
             THEN result
             ELSE truncateLoop(messages, maxTokens, i - 1,
                               totalTokens + tokens, <<message>> \o result)

\* the loop with `continue` in place of `break`
RECURSIVE truncateLoopSkipping(_, _, _, _, _)
truncateLoopSkipping(messages, maxTokens, i, totalTokens, result) ==
    IF i < 1 THEN result
    ELSE LET message == messages[i]
             tokens == tokensOf(message)
         IN  IF totalTokens + tokens > maxTokens /\ i > 1
             THEN truncateLoopSkipping(messages, maxTokens, i - 1, totalTokens, result)
             ELSE truncateLoopSkipping(messages, maxTokens, i - 1,
                                       totalTokens + tokens, <<message>> \o result)

\* the loop pushing the message that crosses the budget before it stops
RECURSIVE truncateLoopInclusive(_, _, _, _, _)
truncateLoopInclusive(messages, maxTokens, i, totalTokens, result) ==
    IF i < 1 THEN result
    ELSE LET message == messages[i]
             tokens == tokensOf(message)
         IN  IF totalTokens + tokens > maxTokens /\ i > 1
             THEN <<message>> \o result
             ELSE truncateLoopInclusive(messages, maxTokens, i - 1,
                                        totalTokens + tokens, <<message>> \o result)

truncateMessagesInclusive(messages, maxTokens) ==
    truncateLoopInclusive(messages, maxTokens, Len(messages), 0, << >>)

truncateMessagesSkipping(messages, maxTokens) ==
    truncateLoopSkipping(messages, maxTokens, Len(messages), 0, << >>)

truncateMessages(messages, maxTokens) ==
    truncateLoop(messages, maxTokens, Len(messages), 0, << >>)

\* [system, ...history, user] of buildContextMessages
assemble(context, systemPrompt, userMessage) ==
    <<Message("system", systemPrompt)>>
    \o (IF config.enableContext THEN context.messages ELSE << >>)
    \o <<Message("user", userMessage)>>

RECURSIVE TotalLen(_, _)
TotalLen(f, S) ==
    IF S = {} THEN 0
    ELSE LET k == CHOOSE x \in S : TRUE
         IN  Len(f[k]) + TotalLen(f, S \ {k})

Touch(k) == accessed' = [accessed EXCEPT ![k] = now]

Tick ==
    /\ now < MaxTime
    /\ now' = now + 1
    /\ UNCHANGED <<config, convVars, groupVars, personaVars, ret, estVars, utilVars, cmdVars, cacheVars>>

GetConversation(k) ==
    /\ conversations' = getConversation(conversations, k)
    /\ added' = addedAfterGet(k)
    /\ Touch(k)
    /\ ret' = [op |-> "getConversation", key |-> k,
               existed |-> k \in DOMAIN conversations,
               idle |-> now - accessed[k],
               before |-> IF k \in DOMAIN conversations
                          THEN conversations[k].createdAt ELSE -1,
               result |-> conversations'[k]]
    /\ UNCHANGED <<now, config, groupVars, personaVars, estVars, utilVars, cmdVars, cacheVars>>

\* addMessage with a history limit of one message more
addMessageOddLimit(convs, sessionId, message) ==
    LET got == getConversation(convs, sessionId)
        context == got[sessionId]
        newMessage == Message(message.role, message.content)
        pushed == Append(context.messages, newMessage)
        maxMessages == context.maxHistoryLength * 2 + 1
    IN  [got EXCEPT ![sessionId] =
            [context EXCEPT !.messages = trimHistory(pushed, maxMessages),
                            !.updatedAt = now]]

\* the store after addMessage(sessionId, message)
addMessage(convs, sessionId, message) ==
    LET got == getConversation(convs, sessionId)
        context == got[sessionId]
        newMessage == Message(message.role, message.content)
        pushed == Append(context.messages, newMessage)
        maxMessages == context.maxHistoryLength * 2
    IN  [got EXCEPT ![sessionId] =
            [context EXCEPT !.messages = trimHistory(pushed, maxMessages),
                            !.updatedAt = now]]

AddMessage(k, message) ==
    /\ TotalLen(addedAfterGet(k), Keys) < MaxAdded
    /\ conversations' = addMessage(conversations, k, message)
    /\ added' = [addedAfterGet(k) EXCEPT
                    ![k] = Append(@, Message(message.role, message.content))]
    /\ Touch(k)
    /\ ret' = [op |-> "addMessage", key |-> k]
    /\ UNCHANGED <<now, config, groupVars, personaVars, estVars, utilVars, cmdVars, cacheVars>>

\* clearHistory that also puts the default persona back
clearHistoryResetting(convs, sessionId) ==
    [getConversation(convs, sessionId) EXCEPT ![sessionId].messages = << >>,
                                              ![sessionId].persona = defaultPersona,
                                              ![sessionId].updatedAt = now]

\* clearHistory that empties every context of the store
clearHistoryEveryKey(convs, sessionId) ==
    LET got == getConversation(convs, sessionId)
    IN  [k \in DOMAIN got |-> [got[k] EXCEPT !.messages = << >>,
                                             !.updatedAt = now]]

\* the store after clearHistory(sessionId)
clearHistory(convs, sessionId) ==
    [getConversation(convs, sessionId) EXCEPT ![sessionId].messages = << >>,
                                              ![sessionId].updatedAt = now]

ClearHistory(k) ==
    /\ conversations' = clearHistory(conversations, k)
    /\ added' = [added EXCEPT ![k] = << >>]
    /\ Touch(k)
    /\ ret' = [op |-> "clearHistory", key |-> k,
               existed |-> k \in DOMAIN conversations,
               wasStale |-> Stale(conversations, k),
               before |-> IF k \in DOMAIN conversations
                          THEN conversations[k] ELSE FreshContext(k)]
    /\ UNCHANGED <<now, config, groupVars, personaVars, estVars, utilVars, cmdVars, cacheVars>>

SetPersona(k, personaName) ==
    /\ LET convs == getConversation(conversations, k)
       IN  conversations' = [convs EXCEPT ![k].persona = personaName,
                                          ![k].updatedAt = now]
    /\ added' = addedAfterGet(k)
    /\ Touch(k)
    /\ ret' = [op |-> "setPersona", key |-> k]
    /\ UNCHANGED <<now, config, groupVars, personaVars, estVars, utilVars, cmdVars, cacheVars>>

BuildContextMessages(k, systemPrompt, userMessage) ==
    /\ conversations' = getConversation(conversations, k)
    /\ added' = addedAfterGet(k)
    /\ Touch(k)
    /\ LET messages == assemble(conversations'[k], systemPrompt, userMessage)
       IN  ret' = [op |-> "buildContextMessages", key |-> k,
                   assembled |-> messages,
                   budget |-> maxContextTokens,
                   result |-> truncateMessages(messages, maxContextTokens)]
    /\ UNCHANGED <<now, config, groupVars, personaVars, estVars, utilVars, cmdVars, cacheVars>>

\* the store's operations on keys K, with messages M, system prompts SP and
\* user messages UM as arguments
ConvNextOver(K, M, SP, UM) ==
    \/ Tick
    \/ \E k \in K : GetConversation(k)
    \/ \E k \in K, m \in M : AddMessage(k, m)
    \/ \E k \in K : ClearHistory(k)
    \/ \E k \in K, p \in PersonaNames : SetPersona(k, p)
    \/ \E k \in K, sp \in SP, um \in UM : BuildContextMessages(k, sp, um)

ConvNext(K) == ConvNextOver(K, NewMessages, SystemPrompts, Contents)

\* context.messages.filter(m => m.role === 'user').length
rounds(messages) == Len(SelectSeq(messages, LAMBDA m : m.role = "user"))

\* context.messages.reduce((total, msg) => total + (msg.tokens || ...), 0)
RECURSIVE totalTokens(_)
totalTokens(messages) ==
    IF messages = << >> THEN 0
    ELSE tokensOf(Head(messages)) + totalTokens(Tail(messages))

\* the value each statistics accessor reads from the context it obtained
readStat(op, context) ==
    CASE op = "getConversationTokens" -> totalTokens(context.messages)
      [] op = "getMessageCount" -> Len(context.messages)
      [] op = "getConversationRounds" -> rounds(context.messages)
      [] op = "getConversationStats" ->
             [messageCount |-> Len(context.messages),
              rounds |-> rounds(context.messages),
              totalTokens |-> totalTokens(context.messages),
              createdAt |-> context.createdAt,
              updatedAt |-> context.updatedAt,
              persona |-> context.persona]

\* a statistics accessor: getConversation(sessionId), then the value read
\* from the context it returned
StatsCall(op, k) ==
    /\ conversations' = getConversation(conversations, k)
    /\ added' = addedAfterGet(k)
    /\ Touch(k)
    /\ ret' = [op |-> op, key |-> k, before |-> conversations,
               result |-> readStat(op, conversations'[k])]
    /\ UNCHANGED <<now, config, groupVars, personaVars, estVars, utilVars, cmdVars, cacheVars>>

GetConversationTokens(k) == StatsCall("getConversationTokens", k)

GetMessageCount(k) == StatsCall("getMessageCount", k)

GetConversationRounds(k) == StatsCall("getConversationRounds", k)

GetConversationStats(k) == StatsCall("getConversationStats", k)

StatsNext(K) ==
    \/ \E k \in K : GetConversationTokens(k)
    \/ \E k \in K : GetMessageCount(k)
    \/ \E k \in K : GetConversationRounds(k)
    \/ \E k \in K : GetConversationStats(k)

\* the sweep that also removes a context idle for exactly the timeout
cleanupExpiredConversationsEarly(convs) ==
    LET expiredIds == {k \in DOMAIN convs : now - convs[k].updatedAt >= timeout}
    IN  [conversations |-> [k \in DOMAIN convs \ expiredIds |-> convs[k]],
         result |-> Cardinality(expiredIds)]

\* cleanupExpiredConversations(): the store after it and its result
cleanupExpiredConversations(convs) ==
    LET expiredIds == {k \in DOMAIN convs : now - convs[k].updatedAt > timeout}
    IN  [conversations |-> [k \in DOMAIN convs \ expiredIds |-> convs[k]],
         result |-> Cardinality(expiredIds)]

CleanupExpiredConversations ==
    /\ conversations' = cleanupExpiredConversations(conversations).conversations
    /\ ret' = [op |-> "cleanupExpiredConversations", at |-> now,
               before |-> conversations,
               result |-> cleanupExpiredConversations(conversations).result]
    /\ UNCHANGED <<now, config, added, accessed, groupVars, personaVars,
                   estVars, utilVars, cmdVars, cacheVars>>

\* the store under keys K with the hourly sweep
CleanupNext(K) ==
    \/ Tick
    \/ \E k \in K, m \in NewMessages : AddMessage(k, m)
    \/ \E k \in K, p \in PersonaNames : SetPersona(k, p)
    \/ CleanupExpiredConversations

-----------------------------------------------------------------------------
(* Group session layer *)

Groups == {"g1", "g2"}
Users == {"u1", "u2"}

\* the map m without key k
Without(m, k) == [x \in DOMAIN m \ {k} |-> m[x]]

FreshGroupContext(groupId) ==
    [groupId |-> groupId,
     sessionId |-> <<"group_", groupId>>,
     messages |-> << >>,
     groupMessages |-> << >>,
     persona |-> defaultPersona,
     createdAt |-> now,
     updatedAt |-> now,
     maxHistoryLength |-> configMaxHistoryLength,
     members |-> {},
     config |-> [groupId |-> groupId,
                 groupName |-> <<"Group_", groupId>>,
                 persona |-> defaultPersona,
                 enableSharedContext |-> TRUE,
                 maxMembers |-> MaxMembers,
                 createdAt |-> now,
                 updatedAt |-> now]]

\* !context || now - context.updatedAt > timeout
GroupStale(sessions, groupId) ==
    groupId \notin DOMAIN sessions \/ now - sessions[groupId].updatedAt > timeout

\* the session map after getGroupSession(groupId)
getGroupSession(sessions, groupId) ==
    IF GroupStale(sessions, groupId)
    THEN (groupId :> FreshGroupContext(groupId)) @@ sessions
    ELSE sessions

\* userGroupMap after groupId is taken out of userId's entry
dropUserGroup(index, userId, groupId) ==
    IF userId \in DOMAIN index
    THEN LET userGroups == index[userId] \ {groupId}
         IN  IF userGroups = {} THEN Without(index, userId)
             ELSE [index EXCEPT ![userId] = userGroups]
    ELSE index

\* userGroupMap after groupId is added to userId's entry
putUserGroup(index, userId, groupId) ==
    IF userId \in DOMAIN index
    THEN [index EXCEPT ![userId] = @ \cup {groupId}]
    ELSE (userId :> {groupId}) @@ index

\* the loop of deleteGroupSession over context.members
RECURSIVE dropMembers(_, _, _)
dropMembers(index, members, groupId) ==
    IF members = {} THEN index
    ELSE LET userId == CHOOSE u \in members : TRUE
         IN  dropMembers(dropUserGroup(index, userId, groupId),
                         members \ {userId}, groupId)

\* deleteGroupSession(groupId) on the two maps: the maps after it and its result
deleteGroupSession(sessions, index, groupId) ==
    IF groupId \notin DOMAIN sessions
    THEN [sessions |-> sessions, index |-> index, result |-> FALSE]
    ELSE [sessions |-> Without(sessions, groupId),
          index |-> dropMembers(index, sessions[groupId].members, groupId),
          result |-> TRUE]

\* the loop of cleanupExpiredGroupSessions over the entries still to visit
RECURSIVE cleanupLoop(_, _, _, _)
cleanupLoop(sessions, index, todo, count) ==
    IF todo = {} THEN [sessions |-> sessions, index |-> index, result |-> count]
    ELSE LET groupId == CHOOSE g \in todo : TRUE
         IN  IF now - sessions[groupId].updatedAt > timeout
             THEN LET d == deleteGroupSession(sessions, index, groupId)
                  IN  cleanupLoop(d.sessions, d.index, todo \ {groupId}, count + 1)
             ELSE cleanupLoop(sessions, index, todo \ {groupId}, count)

GroupMessage(message, senderId) ==
    [role |-> message.role, content |-> message.content,
     senderId |-> senderId, senderName |-> senderId,
     timestamp |-> now, tokens |-> estimateTokens(message.content)]

RECURSIVE StoredMessages(_, _)
StoredMessages(sessions, S) ==
    IF S = {} THEN 0
    ELSE LET g == CHOOSE x \in S : TRUE
         IN  Len(sessions[g].messages) + StoredMessages(sessions, S \ {g})

GroupTick ==
    /\ now < MaxTime
    /\ now' = now + 1
    /\ UNCHANGED <<config, convVars, groupVars, personaVars, ret, estVars, utilVars, cmdVars, cacheVars>>

GetGroupSession(g) ==
    /\ groupSessions' = getGroupSession(groupSessions, g)
    /\ ret' = [op |-> "getGroupSession", group |-> g]
    /\ UNCHANGED <<now, config, convVars, userGroupMap, personaVars,
                   estVars, utilVars, cmdVars, cacheVars>>

\* addMember without the capacity test
addMemberUnbounded(sessions, index, groupId, userId) ==
    LET got == getGroupSession(sessions, groupId)
    IN  [sessions |-> [got EXCEPT ![groupId].members = @ \cup {userId},
                                  ![groupId].updatedAt = now],
         index |-> putUserGroup(index, userId, groupId),
         refused |-> FALSE]

\* addMember(groupId, userId) on the two maps: the maps after it, and whether
\* it returned at the capacity test
addMember(sessions, index, groupId, userId) ==
    LET got == getGroupSession(sessions, groupId)
        context == got[groupId]
    IN  IF Cardinality(context.members) >= context.config.maxMembers
        THEN [sessions |-> got, index |-> index, refused |-> TRUE]
        ELSE [sessions |-> [got EXCEPT ![groupId].members = @ \cup {userId},
                                       ![groupId].updatedAt = now],
              index |-> putUserGroup(index, userId, groupId),
              refused |-> FALSE]

AddMember(g, u) ==
    /\ LET d == addMember(groupSessions, userGroupMap, g, u)
       IN  /\ groupSessions' = d.sessions
           /\ userGroupMap' = d.index
           /\ ret' = [op |-> "addMember", group |-> g, user |-> u,
                      wasStale |-> GroupStale(groupSessions, g),
                      refused |-> d.refused]
    /\ UNCHANGED <<now, config, convVars, personaVars, estVars, utilVars, cmdVars, cacheVars>>

RemoveMember(g, u) ==
    /\ IF g \notin DOMAIN groupSessions
       THEN UNCHANGED groupVars
       ELSE /\ groupSessions' =
                 [groupSessions EXCEPT ![g].members = @ \ {u},
                                       ![g].updatedAt = now]
            /\ userGroupMap' = dropUserGroup(userGroupMap, u, g)
    /\ ret' = [op |-> "removeMember", group |-> g, user |-> u,
               existed |-> g \in DOMAIN groupSessions]
    /\ UNCHANGED <<now, config, convVars, personaVars, estVars, utilVars, cmdVars, cacheVars>>

AddGroupMessage(g, message, senderId, cap) ==
    /\ LET sessions == getGroupSession(groupSessions, g)
           context == sessions[g]
           groupMessage == GroupMessage(message, senderId)
           maxMessages == context.maxHistoryLength * 2
           pushed == Append(context.messages, groupMessage)
           pushedGroup == Append(context.groupMessages, groupMessage)
       IN  /\ StoredMessages(sessions, DOMAIN sessions) < cap
           /\ groupSessions' =
                [sessions EXCEPT ![g] =
                    [context EXCEPT
                        !.messages = trimHistory(pushed, maxMessages),
                        !.groupMessages =
                            IF Len(pushed) > maxMessages
                            THEN SliceLast(pushedGroup, maxMessages)
                            ELSE pushedGroup,
                        !.updatedAt = now]]
           /\ ret' = [op |-> "addGroupMessage", group |-> g,
                      trimmed |-> Len(pushed) > maxMessages]
    /\ UNCHANGED <<now, config, convVars, userGroupMap, personaVars,
                   estVars, utilVars, cmdVars, cacheVars>>

\* clearGroupHistory emptying context.messages only
ClearGroupHistoryMessagesOnly(g) ==
    /\ IF g \notin DOMAIN groupSessions
       THEN UNCHANGED groupSessions
       ELSE groupSessions' = [groupSessions EXCEPT ![g].messages = << >>,
                                                   ![g].updatedAt = now]
    /\ ret' = [op |-> "clearGroupHistory", group |-> g]
    /\ UNCHANGED <<now, config, convVars, userGroupMap, personaVars,
                   estVars, utilVars, cmdVars, cacheVars>>

ClearGroupHistory(g) ==
    /\ IF g \notin DOMAIN groupSessions
       THEN UNCHANGED groupSessions
       ELSE groupSessions' = [groupSessions EXCEPT ![g].messages = << >>,
                                                   ![g].groupMessages = << >>,
                                                   ![g].updatedAt = now]
    /\ ret' = [op |-> "clearGroupHistory", group |-> g]
    /\ UNCHANGED <<now, config, convVars, userGroupMap, personaVars,
                   estVars, utilVars, cmdVars, cacheVars>>

SetGroupSharedContext(g, enabled) ==
    /\ LET sessions == getGroupSession(groupSessions, g)
       IN  groupSessions' =
               [sessions EXCEPT ![g].config.enableSharedContext = enabled,
                                ![g].updatedAt = now]
    /\ ret' = [op |-> "setGroupSharedContext", group |-> g]
    /\ UNCHANGED <<now, config, convVars, userGroupMap, personaVars,
                   estVars, utilVars, cmdVars, cacheVars>>

BuildGroupContextMessages(g, systemPrompt, userMessage) ==
    /\ groupSessions' = getGroupSession(groupSessions, g)
    /\ LET context == groupSessions'[g]
           messages ==
               <<Message("system", systemPrompt)>>
               \o (IF config.enableContext /\ context.config.enableSharedContext
                   THEN context.messages ELSE << >>)
               \o <<Message("user", userMessage)>>
       IN  ret' = [op |-> "buildGroupContextMessages", group |-> g,
                   shared |-> context.config.enableSharedContext,
                   stored |-> Len(context.messages),
                   assembled |-> messages,
                   budget |-> maxContextTokens,
                   result |-> truncateMessages(messages, maxContextTokens)]
    /\ UNCHANGED <<now, config, convVars, userGroupMap, personaVars,
                   estVars, utilVars, cmdVars, cacheVars>>

DeleteGroupSession(g) ==
    /\ LET d == deleteGroupSession(groupSessions, userGroupMap, g)
       IN  /\ groupSessions' = d.sessions
           /\ userGroupMap' = d.index
           /\ ret' = [op |-> "deleteGroupSession", group |-> g, result |-> d.result]
    /\ UNCHANGED <<now, config, convVars, personaVars, estVars, utilVars, cmdVars, cacheVars>>

CleanupExpiredGroupSessions ==
    /\ LET d == cleanupLoop(groupSessions, userGroupMap, DOMAIN groupSessions, 0)
       IN  /\ groupSessions' = d.sessions
           /\ userGroupMap' = d.index
           /\ ret' = [op |-> "cleanupExpiredGroupSessions", result |-> d.result]
    /\ UNCHANGED <<now, config, convVars, personaVars, estVars, utilVars, cmdVars, cacheVars>>

\* the membership operations over groups G and users U
MembershipNext(G, U) ==
    \/ GroupTick
    \/ \E g \in G : GetGroupSession(g)
    \/ \E g \in G, u \in U : AddMember(g, u)
    \/ \E g \in G, u \in U : RemoveMember(g, u)
    \/ \E g \in G : AddGroupMessage(g, [role |-> "user", content |-> <<"U4F60">>], "u1",
                                     MaxMemberMessages)
    \/ \E g \in G : DeleteGroupSession(g)
    \/ CleanupExpiredGroupSessions

\* the least user id that is not a member of the group's session as
\* addMember will find it; user ids are 1, 2, ... here
nextUser(groupId) ==
    IF GroupStale(groupSessions, groupId) THEN 1
    ELSE Cardinality(groupSessions[groupId].members) + 1

\* one group filled to its capacity: members join in the order of their ids
\* and leave in the reverse order
CapacityNext(g) ==
    \/ GroupTick
    \/ GetGroupSession(g)
    \/ \E u \in {1, nextUser(g)} : AddMember(g, u)
    \/ /\ g \in DOMAIN groupSessions
       /\ groupSessions[g].members # {}
       /\ RemoveMember(g, Cardinality(groupSessions[g].members))

\* the operations a group is first reached by after an idle period, over
\* groups G and users U
RevivalNext(G, U) ==
    \/ GroupTick
    \/ \E g \in G : GetGroupSession(g)
    \/ \E g \in G, u \in U : AddMember(g, u)
    \/ \E g \in G, u \in U : RemoveMember(g, u)
    \/ \E g \in G, u \in U :
           AddGroupMessage(g, [role |-> "user", content |-> <<"U4F60">>], u,
                           MaxMemberMessages)
    \/ \E g \in G : ClearGroupHistory(g)
    \/ \E g \in G, enabled \in BOOLEAN : SetGroupSharedContext(g, enabled)
    \/ \E g \in G : BuildGroupContextMessages(g, << >>, <<" ">>)

\* the operations that write the two message lists of a group session, over
\* groups G
MirrorNext(G) ==
    \/ GroupTick
    \/ \E g \in G : GetGroupSession(g)
    \/ \E g \in G, m \in NewMessages, u \in Users :
           AddGroupMessage(g, m, u, MaxGroupMessages)
    \/ \E g \in G : ClearGroupHistory(g)

\* the shared-context operations over groups G
GroupContextNext(G) ==
    \/ GroupTick
    \/ \E g \in G, m \in NewMessages, u \in Users :
           AddGroupMessage(g, m, u, MaxGroupMessages)
    \/ \E g \in G : ClearGroupHistory(g)
    \/ \E g \in G, enabled \in BOOLEAN : SetGroupSharedContext(g, enabled)
    \/ \E g \in G, sp \in SystemPrompts, um \in Contents :
           BuildGroupContextMessages(g, sp, um)

-----------------------------------------------------------------------------
(* Persona manager (the simple persona set) *)

\* getSimplePersonas(): the name and the description of each built-in persona
SimplePersonas ==
    {[name |-> "default", description |-> "zh_guanfangmoren"],
     [name |-> "assistant", description |-> "zh_biaozhunzhushou"],
     [name |-> "catgirl", description |-> "zh_keaimaoniang"],
     [name |-> "maid", description |-> "zh_zhuanyenvpu"],
     [name |-> "big-sister", description |-> "zh_wenroudajiejie"],
     [name |-> "girlfriend", description |-> "zh_tiexinnvyou"],
     [name |-> "boyfriend", description |-> "zh_wenrounanyou"],
     [name |-> "tsundere", description |-> "zh_aojiaojuese"],
     [name |-> "genki", description |-> "zh_yuanqishaonv"],
     [name |-> "cool-queen", description |-> "zh_gaolengyujie"],
     [name |-> "yandere", description |-> "zh_bingjiaojuese"],
     [name |-> "dandere", description |-> "zh_tianrandai"],
     [name |-> "schemer", description |-> "zh_fuheijuese"],
     [name |-> "healer", description |-> "zh_zhiyuxi"],
     [name |-> "ceo", description |-> "zh_badaozongcai"],
     [name |-> "loyal-dog", description |-> "zh_zhongquanxi"]}

\* the alias table of initializePersonaAliases, as <<alias, name>> pairs
AliasTable ==
    {<<"zh_moren", "default">>, <<"zh_guanfangmoren", "default">>,
     <<"zh_zhushou", "assistant">>, <<"zh_biaozhunzhushou", "assistant">>,
     <<"zh_maoniang", "catgirl">>, <<"zh_keaimaoniang", "catgirl">>,
     <<"zh_nvpu", "maid">>, <<"zh_zhuanyenvpu", "maid">>,
     <<"zh_dajiejie", "big-sister">>, <<"zh_wenroudajiejie", "big-sister">>,
     <<"zh_nvyou", "girlfriend">>, <<"zh_tiexinnvyou", "girlfriend">>,
     <<"zh_nanyou", "boyfriend">>, <<"zh_wenrounanyou", "boyfriend">>,
     <<"zh_aojiao", "tsundere">>, <<"zh_aojiaojuese", "tsundere">>,
     <<"zh_yuanqi", "genki">>, <<"zh_yuanqishaonv", "genki">>,
     <<"zh_yujie", "cool-queen">>, <<"zh_gaolengyujie", "cool-queen">>,
     <<"zh_bingjiao", "yandere">>, <<"zh_bingjiaojuese", "yandere">>,
     <<"zh_tianrandai", "dandere">>, <<"zh_tianrandaijuese", "dandere">>,
     <<"zh_fuhei", "schemer">>, <<"zh_fuheijuese", "schemer">>,
     <<"zh_zhiyu", "healer">>, <<"zh_zhiyuxi", "healer">>,
     <<"zh_zongcai", "ceo">>, <<"zh_badaozongcai", "ceo">>,
     <<"zh_zhongquan", "loyal-dog">>, <<"zh_zhongquanxi", "loyal-dog">>}

\* String.prototype.toLowerCase on the strings of the model
toLowerCase(str) ==
    CASE str = "Maid" -> "maid"
      [] str = "CatGirl" -> "catgirl"
      [] str = "MyCat" -> "mycat"
      [] OTHER -> str

Undefined == [undefined |-> TRUE]

PersonaUsers == {"u1", "u2"}
CustomNames == {"zh_maoniang", "Maid", "mycat"}
Descriptions == {"d1", "d2"}
NameInputs == {"catgirl", "assistant", "zh_maoniang", "Maid", "CatGirl", "mycat", "nobody"}

\* the built-in map of initializeDefaultPersonas
initialPersonas ==
    [n \in {p.name : p \in SimplePersonas} |->
        CHOOSE p \in SimplePersonas : p.name = n]

\* the alias map of initializePersonaAliases: the table's entries, then every
\* built-in name, each under its lower-case form and under itself
initializePersonaAliases(builtin) ==
    LET tableKeys == {p[1] : p \in AliasTable} \cup {toLowerCase(p[1]) : p \in AliasTable}
        fromTable == [k \in tableKeys |->
            (CHOOSE p \in AliasTable : p[1] = k \/ toLowerCase(p[1]) = k)[2]]
        nameKeys == DOMAIN builtin \cup {toLowerCase(n) : n \in DOMAIN builtin}
        fromNames == [k \in nameKeys |->
            CHOOSE n \in DOMAIN builtin : n = k \/ toLowerCase(n) = k]
    IN  fromNames @@ fromTable

\* this.personas.get(name) || this.userPersonas.get(name)
lookup(builtin, custom, name) ==
    IF name \in DOMAIN builtin THEN builtin[name]
    ELSE IF name \in DOMAIN custom THEN custom[name]
    ELSE Undefined

\* getPersona without the alias lookup
getPersonaByNameOnly(name) == lookup(personas, userPersonas, name)

getPersona(name) ==
    LET persona == lookup(personas, userPersonas, name)
        realName == IF name \in DOMAIN personaAliases THEN personaAliases[name]
                    ELSE IF toLowerCase(name) \in DOMAIN personaAliases
                         THEN personaAliases[toLowerCase(name)]
                         ELSE ""
    IN  IF persona # Undefined THEN persona
        ELSE IF realName # "" THEN lookup(personas, userPersonas, realName)
        ELSE Undefined

\* addCustomPersona that only looks at the custom map
addCustomPersonaUnguarded(persona) ==
    IF persona.name \in DOMAIN userPersonas
    THEN [userPersonas |-> userPersonas, result |-> FALSE]
    ELSE [userPersonas |-> (persona.name :> persona) @@ userPersonas,
          result |-> TRUE]

\* addCustomPersona(persona): the custom map after it and its result
addCustomPersona(persona) ==
    IF persona.name \in DOMAIN personas \/ persona.name \in DOMAIN userPersonas
    THEN [userPersonas |-> userPersonas, result |-> FALSE]
    ELSE [userPersonas |-> (persona.name :> persona) @@ userPersonas,
          result |-> TRUE]

\* removeCustomPersona(name): the custom map after it and its result
removeCustomPersona(name) ==
    IF name \in DOMAIN personas
    THEN [userPersonas |-> userPersonas, result |-> FALSE]
    ELSE [userPersonas |-> Without(userPersonas, name),
          result |-> name \in DOMAIN userPersonas]

\* switchPersona that stores the string it was given
switchPersonaStoringInput(userId, personaName) ==
    LET persona == getPersona(personaName)
    IN  IF persona # Undefined
        THEN [userStates |-> (userId :> personaName) @@ userStates, result |-> TRUE]
        ELSE [userStates |-> userStates, result |-> FALSE]

\* switchPersona that stores the name before it looks the persona up
switchPersonaUnchecked(userId, personaName) ==
    [userStates |-> (userId :> personaName) @@ userStates,
     result |-> getPersona(personaName) # Undefined]

\* switchPersona(userId, personaName): the state map after it and its result
switchPersona(userId, personaName) ==
    LET persona == getPersona(personaName)
    IN  IF persona # Undefined
        THEN [userStates |-> (userId :> persona.name) @@ userStates, result |-> TRUE]
        ELSE [userStates |-> userStates, result |-> FALSE]

\* this.config.defaultPersona || 'default'
configuredPersona == IF config.defaultPersona = ""
                     THEN "default" ELSE config.defaultPersona

\* this.userStates.get(userId) || (this.config.defaultPersona || 'default')
getCurrentPersonaName(userId) ==
    IF userId \in DOMAIN userStates /\ userStates[userId] # ""
    THEN userStates[userId] ELSE configuredPersona

\* getCurrentPersona without the second lookup
getCurrentPersonaNoFallback(userId) == getPersona(getCurrentPersonaName(userId))

\* this.getPersona(personaName) || this.getPersona('default')!
getCurrentPersona(userId) ==
    LET persona == getPersona(getCurrentPersonaName(userId))
    IN  IF persona # Undefined THEN persona ELSE getPersona("default")

GetPersona(name) ==
    /\ ret' = [op |-> "getPersona", name |-> name, result |-> getPersona(name)]
    /\ UNCHANGED <<now, config, convVars, groupVars, personaVars, estVars, utilVars, cmdVars, cacheVars>>

AddCustomPersona(persona) ==
    /\ userPersonas' = addCustomPersona(persona).userPersonas
    /\ ret' = [op |-> "addCustomPersona", name |-> persona.name,
               wasBuiltin |-> persona.name \in DOMAIN personas,
               wasCustom |-> persona.name \in DOMAIN userPersonas,
               result |-> addCustomPersona(persona).result]
    /\ UNCHANGED <<now, config, convVars, groupVars,
                   personas, userStates, personaAliases, estVars, utilVars, cmdVars, cacheVars>>

RemoveCustomPersona(name) ==
    /\ userPersonas' = removeCustomPersona(name).userPersonas
    /\ ret' = [op |-> "removeCustomPersona", name |-> name,
               wasBuiltin |-> name \in DOMAIN personas,
               wasCustom |-> name \in DOMAIN userPersonas,
               result |-> removeCustomPersona(name).result]
    /\ UNCHANGED <<now, config, convVars, groupVars,
                   personas, userStates, personaAliases, estVars, utilVars, cmdVars, cacheVars>>

SwitchPersona(userId, personaName) ==
    /\ userStates' = switchPersona(userId, personaName).userStates
    /\ ret' = [op |-> "switchPersona", user |-> userId,
               name |-> personaName,
               result |-> switchPersona(userId, personaName).result]
    /\ UNCHANGED <<now, config, convVars, groupVars,
                   personas, userPersonas, personaAliases, estVars, utilVars, cmdVars, cacheVars>>

ClearUserState(userId) ==
    /\ userStates' = Without(userStates, userId)
    /\ ret' = [op |-> "clearUserState", user |-> userId]
    /\ UNCHANGED <<now, config, convVars, groupVars,
                   personas, userPersonas, personaAliases, estVars, utilVars, cmdVars, cacheVars>>

GetCurrentPersonaName(userId) ==
    /\ ret' = [op |-> "getCurrentPersonaName", user |-> userId,
               result |-> getCurrentPersonaName(userId)]
    /\ UNCHANGED <<now, config, convVars, groupVars, personaVars, estVars, utilVars, cmdVars, cacheVars>>

GetCurrentPersona(userId) ==
    /\ ret' = [op |-> "getCurrentPersona", user |-> userId,
               result |-> getCurrentPersona(userId)]
    /\ UNCHANGED <<now, config, convVars, groupVars, personaVars, estVars, utilVars, cmdVars, cacheVars>>

PersonaNext ==
    \/ \E name \in NameInputs \cup {"zh_keaimaoniang"} : GetPersona(name)
    \/ \E n \in CustomNames \cup {"assistant"}, d \in Descriptions :
           AddCustomPersona([name |-> n, description |-> d])
    \/ \E name \in CustomNames \cup {"assistant"} : RemoveCustomPersona(name)
    \/ \E u \in PersonaUsers, name \in NameInputs : SwitchPersona(u, name)
    \/ \E u \in PersonaUsers : ClearUserState(u)
    \/ \E u \in PersonaUsers : GetCurrentPersonaName(u)
    \/ \E u \in PersonaUsers : GetCurrentPersona(u)

-----------------------------------------------------------------------------
(* Cache layer.  A string is a sequence of tokens; ":" is the separator    *)
(* generateKey inserts, every other token is a run of characters without *)
(* a colon.                                                               *)

\* model bounds of the cache
CacheSize == 2
ShortTTL == 1
MaxHits == 1

DefaultPersonaTTL == 3600000
DefaultConversationTTL == 1800000
DefaultApiResponseTTL == 300000
DefaultMaxCacheSize == 1000

\* the Partial<CacheConfig> given to the constructor; 0 stands for an absent field
CacheConfigInput ==
    [personaTTL |-> ShortTTL, conversationTTL |-> 0,
     apiResponseTTL |-> 0, maxCacheSize |-> CacheSize]

\* this.config of the constructor: `x || d` takes d when x is 0
cacheConfig ==
    [personaTTL |-> IF CacheConfigInput.personaTTL = 0
                    THEN DefaultPersonaTTL ELSE CacheConfigInput.personaTTL,
     conversationTTL |-> IF CacheConfigInput.conversationTTL = 0
                         THEN DefaultConversationTTL
                         ELSE CacheConfigInput.conversationTTL,
     apiResponseTTL |-> IF CacheConfigInput.apiResponseTTL = 0
                        THEN DefaultApiResponseTTL
                        ELSE CacheConfigInput.apiResponseTTL,
     maxCacheSize |-> IF CacheConfigInput.maxCacheSize = 0
                      THEN DefaultMaxCacheSize ELSE CacheConfigInput.maxCacheSize]

Null == [null |-> TRUE]

\* (namespace, id) pairs without a colon, and pairs with one
PlainPairs == {<<<<"test">>, <<"key1">>>>, <<<<"persona">>, <<"key1">>>>}
ThreePairs == PlainPairs \cup {<<<<"test">>, <<"key2">>>>}
ColonPairs == {<<<<"a">>, <<"c">>>>, <<<<"a">>, <<"b", ":", "c">>>>,
               <<<<"a", ":", "b">>, <<"c">>>>}
\* cached values are objects, as null is
CacheValues == {[value |-> "test"], [name |-> "test"]}
TTLInputs == {0, ShortTTL}

\* `${namespace}:${id}`
generateKey(namespace, id) == namespace \o <<":">> \o id

\* key.startsWith(prefix)
startsWith(key, prefix) ==
    Len(key) >= Len(prefix) /\ SubSeq(key, 1, Len(prefix)) = prefix

getDefaultTTL(namespace) ==
    CASE namespace = <<"persona">> -> cacheConfig.personaTTL
      [] namespace = <<"conversation">> -> cacheConfig.conversationTTL
      [] namespace = <<"api_response">> -> cacheConfig.apiResponseTTL
      [] OTHER -> cacheConfig.apiResponseTTL

\* the keys of accessCount
countKeys(counts) == {counts[i][1] : i \in 1..Len(counts)}

\* accessCount.get(key) for a key of the map
countOf(counts, key) ==
    counts[CHOOSE i \in 1..Len(counts) : counts[i][1] = key][2]

\* accessCount.set(key, n): in place for a key of the map, at the end otherwise
setCount(counts, key, n) ==
    IF key \in countKeys(counts)
    THEN [i \in 1..Len(counts) |->
             IF counts[i][1] = key THEN <<key, n>> ELSE counts[i]]
    ELSE Append(counts, <<key, n>>)

\* accessCount.delete(key) for every key of the set
deleteCounts(counts, keys) == SelectSeq(counts, LAMBDA e : e[1] \notin keys)

\* cache.delete(key) for every key of the set
deleteItems(items, keys) == [k \in DOMAIN items \ keys |-> items[k]]

\* the loop of evictLRU: minKey after the entries from index i on
RECURSIVE evictLoop(_, _, _, _)
evictLoop(counts, i, minKey, minCount) ==
    IF i > Len(counts) THEN minKey
    ELSE IF minKey = Null \/ counts[i][2] < minCount
         THEN evictLoop(counts, i + 1, counts[i][1], counts[i][2])
         ELSE evictLoop(counts, i + 1, minKey, minCount)

\* the loop taking the last of the entries with the smallest count
RECURSIVE evictLoopLast(_, _, _, _)
evictLoopLast(counts, i, minKey, minCount) ==
    IF i > Len(counts) THEN minKey
    ELSE IF minKey = Null \/ counts[i][2] <= minCount
         THEN evictLoopLast(counts, i + 1, counts[i][1], counts[i][2])
         ELSE evictLoopLast(counts, i + 1, minKey, minCount)

evictLRULast(counts) == evictLoopLast(counts, 1, Null, 0)

\* evictLRU(): the key it deletes, Null when it deletes none
evictLRU(counts) == evictLoop(counts, 1, Null, 0)

\* set() without the size check
evictedBySetNever(key) == {}

\* the keys set() evicts before it stores key
evictedBySet(key) ==
    IF Cardinality(DOMAIN cache) >= cacheConfig.maxCacheSize
       /\ key \notin DOMAIN cache
       /\ evictLRU(accessCount) # Null
    THEN {evictLRU(accessCount)} ELSE {}

\* the test that never expires an entry
expiredNever(item) == FALSE

\* Date.now() - item.timestamp > item.ttl
expired(item) == now - item.timestamp > item.ttl

\* the keys of the namespace, as clearNamespace selects them
namespaceKeys(namespace) ==
    {key \in DOMAIN cache : startsWith(key, namespace \o <<":">>)}

\* the history without the calls that stored one of the keys
forget(calls, keys) ==
    {c \in calls : generateKey(c.namespace, c.id) \notin keys}

\* the history with the calls whose key was purged marked so
markPurged(calls, keys) ==
    {IF generateKey(c.namespace, c.id) \in keys
     THEN [c EXCEPT !.purged = TRUE] ELSE c : c \in calls}

\* the call of the history that stored under (namespace, id), Null if none
liveCall(namespace, id) ==
    IF \E c \in live : c.namespace = namespace /\ c.id = id
    THEN CHOOSE c \in live : c.namespace = namespace /\ c.id = id
    ELSE Null

\* the entries of the cache in iteration order, each with the number of
\* successful get calls on it since it was set
hitsInOrder ==
    [i \in 1..Len(accessCount) |->
        LET key == accessCount[i][1]
            calls == {c \in live : generateKey(c.namespace, c.id) = key /\ ~c.purged}
        IN  <<key, IF calls = {} THEN 0 ELSE (CHOOSE c \in calls : TRUE).hits>>]

CacheSet(namespace, id, value, ttl) ==
    /\ LET key == generateKey(namespace, id)
           evicted == evictedBySet(key)
           cacheItem == [value |-> value, timestamp |-> now,
                         ttl |-> IF ttl = 0 THEN getDefaultTTL(namespace) ELSE ttl]
       IN  /\ cache' = (key :> cacheItem) @@ deleteItems(cache, evicted)
           /\ accessCount' = setCount(deleteCounts(accessCount, evicted), key, 0)
           /\ live' = {c \in forget(live, evicted) :
                          ~(c.namespace = namespace /\ c.id = id)}
                      \cup {[namespace |-> namespace, id |-> id, value |-> value,
                             ttl |-> ttl, timestamp |-> now, hits |-> 0,
                             purged |-> FALSE]}
           /\ ret' = [op |-> "set", key |-> key,
                      sizeBefore |-> Cardinality(DOMAIN cache),
                      existed |-> key \in DOMAIN cache,
                      entriesBefore |-> hitsInOrder,
                      evicted |-> evicted]
    /\ UNCHANGED <<now, config, convVars, groupVars, personaVars, estVars, utilVars, cmdVars>>

CacheGet(namespace, id) ==
    /\ LET key == generateKey(namespace, id)
           was == liveCall(namespace, id)
       IN  IF key \notin DOMAIN cache
           THEN /\ UNCHANGED cacheVars
                /\ ret' = [op |-> "get", key |-> key, at |-> now, was |-> was,
                           result |-> Null]
           ELSE IF expired(cache[key])
           THEN /\ cache' = deleteItems(cache, {key})
                /\ accessCount' = deleteCounts(accessCount, {key})
                /\ live' = markPurged(live, {key})
                /\ ret' = [op |-> "get", key |-> key, at |-> now, was |-> was,
                           result |-> Null]
           ELSE /\ countOf(accessCount, key) < MaxHits
                /\ was # Null => was.hits < MaxHits
                /\ UNCHANGED cache
                /\ accessCount' = setCount(accessCount, key,
                                           countOf(accessCount, key) + 1)
                /\ live' = {IF c.namespace = namespace /\ c.id = id
                            THEN [c EXCEPT !.hits = @ + 1] ELSE c : c \in live}
                /\ ret' = [op |-> "get", key |-> key, at |-> now, was |-> was,
                           result |-> cache[key].value]
    /\ UNCHANGED <<now, config, convVars, groupVars, personaVars, estVars, utilVars, cmdVars>>

CacheDelete(namespace, id) ==
    /\ LET key == generateKey(namespace, id)
       IN  /\ cache' = deleteItems(cache, {key})
           /\ accessCount' = deleteCounts(accessCount, {key})
           /\ live' = {c \in live : ~(c.namespace = namespace /\ c.id = id)}
           /\ ret' = [op |-> "delete", key |-> key,
                      result |-> key \in DOMAIN cache]
    /\ UNCHANGED <<now, config, convVars, groupVars, personaVars, estVars, utilVars, cmdVars>>

CacheClearNamespace(namespace) ==
    /\ LET keys == namespaceKeys(namespace)
       IN  /\ cache' = deleteItems(cache, keys)
           /\ accessCount' = deleteCounts(accessCount, keys)
           /\ live' = {c \in live : c.namespace # namespace}
           /\ ret' = [op |-> "clearNamespace", namespace |-> namespace,
                      liveBefore |-> {c \in live : ~c.purged},
                      result |-> Cardinality(keys)]
    /\ UNCHANGED <<now, config, convVars, groupVars, personaVars, estVars, utilVars, cmdVars>>

CacheClear ==
    /\ cache' = << >>
    /\ accessCount' = << >>
    /\ live' = {}
    /\ ret' = [op |-> "clear"]
    /\ UNCHANGED <<now, config, convVars, groupVars, personaVars, estVars, utilVars, cmdVars>>

\* the sweep the constructor's timer runs
CleanupExpired ==
    /\ LET keys == {key \in DOMAIN cache : expired(cache[key])}
       IN  /\ cache' = deleteItems(cache, keys)
           /\ accessCount' = deleteCounts(accessCount, keys)
           /\ live' = markPurged(live, keys)
    /\ ret' = [op |-> "cleanupExpired"]
    /\ UNCHANGED <<now, config, convVars, groupVars, personaVars, estVars, utilVars, cmdVars>>

\* the cache operations over the (namespace, id) pairs P, values V and ttl
\* arguments T
CacheNext(P, V, T) ==
    \/ Tick
    \/ \E p \in P, v \in V, ttl \in T : CacheSet(p[1], p[2], v, ttl)
    \/ \E p \in P : CacheGet(p[1], p[2])
    \/ \E p \in P : CacheDelete(p[1], p[2])
    \/ \E p \in P : CacheClearNamespace(p[1])
    \/ CacheClear
    \/ CleanupExpired

-----------------------------------------------------------------------------
(* Commands: persona-switch, chat and ask.  A chat or ask handler runs up   *)
(* to its first await in one step; the rest of it runs when the awaited     *)
(* call returns.                                                            *)

MaxInFlight == 1

CommandUsers == {"u1"}
SwitchNames == {"zh_maoniang", " catgirl ", " ", "nobody"}
PersonaOptions == {"", "maid", "nobody"}
ChatTexts == {<< >>, <<"U4F60">>}
Responses == {<< >>, <<" ">>}

\* String.prototype.trim on the strings of the model
trim(str) ==
    CASE str = " " -> ""
      [] str = " catgirl " -> "catgirl"
      [] OTHER -> str

\* persona.systemPrompt: the prompt text of a persona, one token per persona
systemPromptOf(persona) == <<persona.name>>

\* context.messages of the user's context, empty when there is none
historyOf(convs, userId) ==
    IF userId \in DOMAIN convs THEN convs[userId].messages ELSE << >>

\* s without its i-th element
RemoveAt(s, i) == SubSeq(s, 1, i - 1) \o SubSeq(s, i + 1, Len(s))

\* the store after a persona-switch that keeps the history
historyAfterSwitchKept(convs, userId) == convs

\* the store after a successful persona-switch: clearHistory(session.userId)
historyAfterSwitch(convs, userId) == clearHistory(convs, userId)

\* history: the suspended handlers, those of the user marked as started
\* before a persona-switch of that user
overtake(reqs, userId) ==
    [i \in 1..Len(reqs) |->
        IF reqs[i].user = userId THEN [reqs[i] EXCEPT !.overtaken = TRUE]
        ELSE reqs[i]]

PersonaSwitchCommand(userId, name) ==
    LET personaName == trim(name)
        switched == switchPersona(userId, personaName)
    IN  IF userId = "" \/ personaName = ""
        THEN /\ ret' = [op |-> "persona-switch", user |-> userId, name |-> name,
                        before |-> historyOf(conversations, userId),
                        result |-> FALSE]
             /\ UNCHANGED <<now, config, convVars, groupVars, personaVars,
                            estVars, utilVars, cacheVars, cmdVars>>
        ELSE /\ userStates' = switched.userStates
             /\ IF switched.result
                THEN /\ conversations' = historyAfterSwitch(conversations, userId)
                     /\ added' = [added EXCEPT ![userId] = << >>]
                     /\ Touch(userId)
                     /\ requests' = overtake(requests, userId)
                ELSE UNCHANGED <<convVars, cmdVars>>
             /\ ret' = [op |-> "persona-switch", user |-> userId, name |-> name,
                        before |-> historyOf(conversations, userId),
                        result |-> switched.result]
             /\ UNCHANGED <<now, config, groupVars, personas, userPersonas,
                            personaAliases, estVars, utilVars, cacheVars>>

\* the chat / ask action up to `await session.send(...)`; at most cap
\* handlers are suspended at a time
ChatCommand(cmd, userId, admin, reset, option, message, cap) ==
    LET called == [op |-> cmd, user |-> userId, admin |-> admin, reset |-> reset,
                   before |-> historyOf(conversations, userId)]
        tempPersona == getPersona(option)
        persona == IF option # "" THEN tempPersona ELSE getCurrentPersona(userId)
    IN  IF message = << >>
        THEN /\ ret' = called @@ [result |-> "no message"]
             /\ UNCHANGED <<now, config, convVars, groupVars, personaVars,
                            estVars, utilVars, cacheVars, cmdVars>>
        ELSE IF reset
        THEN /\ conversations' = clearHistory(conversations, userId)
             /\ added' = [added EXCEPT ![userId] = << >>]
             /\ Touch(userId)
             /\ ret' = called @@ [result |-> "reset"]
             /\ UNCHANGED <<now, config, groupVars, personaVars,
                            estVars, utilVars, cacheVars, cmdVars>>
        ELSE IF option # "" /\ tempPersona = Undefined
        THEN /\ ret' = called @@ [result |-> "no persona"]
             /\ UNCHANGED <<now, config, convVars, groupVars, personaVars,
                            estVars, utilVars, cacheVars, cmdVars>>
        ELSE /\ Len(requests) < cap
             /\ requests' = Append(requests,
                    [cmd |-> cmd, user |-> userId, message |-> message,
                     systemPrompt |-> systemPromptOf(persona),
                     pc |-> "send", prompt |-> << >>, overtaken |-> FALSE])
             /\ ret' = called @@ [result |-> "thinking"]
             /\ UNCHANGED <<now, config, convVars, groupVars, personaVars,
                            estVars, utilVars, cacheVars>>

\* session.send returned: buildContextMessages, then the completion call
ChatSent(i) ==
    /\ requests[i].pc = "send"
    /\ LET r == requests[i]
       IN  /\ conversations' = getConversation(conversations, r.user)
           /\ added' = addedAfterGet(r.user)
           /\ Touch(r.user)
           /\ requests' =
                [requests EXCEPT
                    ![i].pc = "complete",
                    ![i].prompt =
                        truncateMessages(
                            assemble(conversations'[r.user], r.systemPrompt, r.message),
                            maxContextTokens)]
           /\ ret' = [op |-> "send", user |-> r.user]
    /\ UNCHANGED <<now, config, groupVars, personaVars, estVars, utilVars, cacheVars>>

\* the messages the handler passes to addMessage once the completion call
\* returned response, the user message even when there is no content
turnMessagesUserFirst(message, response) ==
    <<[role |-> "user", content |-> message]>>
    \o (IF response = << >> THEN << >>
        ELSE <<[role |-> "assistant", content |-> response]>>)

\* the messages the handler passes to addMessage once the completion call
\* returned response: none after `if (!response) return`, else the pair
turnMessages(message, response) ==
    IF response = << >> THEN << >>
    ELSE <<[role |-> "user", content |-> message],
           [role |-> "assistant", content |-> response]>>

\* consecutive addMessage calls on one key
RECURSIVE addMessages(_, _, _)
addMessages(convs, sessionId, messages) ==
    IF messages = << >> THEN convs
    ELSE addMessages(addMessage(convs, sessionId, Head(messages)),
                     sessionId, Tail(messages))

\* the completion call returned response (empty: no content); at most cap
\* messages are appended to the contexts alive
ChatCompleted(i, response, cap) ==
    /\ requests[i].pc = "complete"
    /\ LET r == requests[i]
           turn == turnMessages(r.message, response)
           stored == [n \in 1..Len(turn) |-> Message(turn[n].role, turn[n].content)]
       IN  /\ IF turn = << >>
              THEN UNCHANGED convVars
              ELSE /\ TotalLen(addedAfterGet(r.user), Keys) + Len(turn) <= cap
                   /\ conversations' = addMessages(conversations, r.user, turn)
                   /\ added' = [addedAfterGet(r.user) EXCEPT ![r.user] = @ \o stored]
                   /\ Touch(r.user)
           /\ ret' = [op |-> "completed", user |-> r.user,
                      overtaken |-> r.overtaken, stored |-> stored,
                      result |-> IF response = << >> THEN "no content" ELSE "replied"]
    /\ requests' = RemoveAt(requests, i)
    /\ UNCHANGED <<now, config, groupVars, personaVars, estVars, utilVars, cacheVars>>

\* an awaited call threw: the catch block reports the error
ChatFailed(i) ==
    /\ requests' = RemoveAt(requests, i)
    /\ ret' = [op |-> "failed", user |-> requests[i].user]
    /\ UNCHANGED <<now, config, convVars, groupVars, personaVars, estVars, utilVars, cacheVars>>

\* the commands of users U
CommandNext(U) ==
    \/ Tick
    \/ \E u \in U \cup {""}, name \in SwitchNames : PersonaSwitchCommand(u, name)
    \/ \E cmd \in {"chat", "ask"}, u \in U, admin \in BOOLEAN, reset \in BOOLEAN,
          option \in PersonaOptions, message \in ChatTexts :
           ChatCommand(cmd, u, admin, reset, option, message, MaxInFlight)
    \/ \E i \in 1..Len(requests) : ChatSent(i)
    \/ \E i \in 1..Len(requests), response \in Responses :
           ChatCompleted(i, response, MaxAdded)
    \/ \E i \in 1..Len(requests) : ChatFailed(i)

\* chat requests of users U that overlap: a user sends the next message
\* while earlier ones are awaiting their completion
OverlapNext(U) ==
    \/ Tick
    \/ \E u \in U :
           ChatCommand("chat", u, FALSE, FALSE, "", <<"U4F60">>, MaxInFlight + 1)
    \/ \E i \in 1..Len(requests) : ChatSent(i)
    \/ \E i \in 1..Len(requests), response \in Responses :
           ChatCompleted(i, response, MaxAdded)
    \/ \E i \in 1..Len(requests) : ChatFailed(i)

-----------------------------------------------------------------------------
(* Error handler.  An error object is the record of error.response.status,  *)
(* error.response.data.code, error.response.data.message and error.message; *)
(* an absent status is 0 and an absent string is "", which `||` and `?.`     *)
(* treat as they treat undefined.                                           *)

Statuses == {0, 400, 401, 429, 500, 503}
ProviderCodes == {"", "401-InvalidApiKey", "429-Throttling", "500-InternalError",
                  "400-InvalidParameter", "DataInspectionFailed",
                  "400-DataInspectionFailed", "InvalidApiKey", "Throttling"}
DataMessages == {"", "Invalid API key"}
ErrorMessages == {"", "Request failed with status code 429",
                  "timeout of 30000ms exceeded"}

ApiErrors ==
    [status : Statuses, code : ProviderCodes,
     dataMessage : DataMessages, message : ErrorMessages]

\* errorMessage?.includes('timeout') on the strings of the model
includesTimeout(str) == str = "timeout of 30000ms exceeded"

AppError(type, statusCode) == [type |-> type, statusCode |-> statusCode]

\* error.response?.data?.code || error.response?.status: the provider code
\* when there is one, the status otherwise
errorCodeIs(error, code, status) ==
    IF error.code # "" THEN error.code = code ELSE error.status = status

\* error.response?.data?.message || error.message
errorMessageOf(error) ==
    IF error.dataMessage # "" THEN error.dataMessage ELSE error.message

handleApiError(error) ==
    IF errorCodeIs(error, "401-InvalidApiKey", 401)
    THEN AppError("API_KEY_INVALID", 401)
    ELSE IF errorCodeIs(error, "429-Throttling", 429)
    THEN AppError("API_RATE_LIMIT", 429)
    ELSE IF errorCodeIs(error, "500-InternalError", 500)
    THEN AppError("API_SERVER_ERROR", 500)
    ELSE IF errorCodeIs(error, "400-InvalidParameter", 400)
    THEN AppError("API_PARAMETER_ERROR", 400)
    ELSE IF error.code \in {"DataInspectionFailed", "400-DataInspectionFailed"}
    THEN AppError("API_DATA_INSPECTION_FAILED", 400)
    ELSE IF includesTimeout(errorMessageOf(error))
    THEN AppError("API_TIMEOUT", 408)
    ELSE AppError("UNKNOWN_ERROR", IF error.status # 0 THEN error.status ELSE 500)

HandleApiError ==
    /\ ret = NoRet
    /\ ret' = [op |-> "handleApiError", error |-> apiError,
               result |-> handleApiError(apiError)]
    /\ UNCHANGED <<now, config, convVars, groupVars, personaVars, estVars,
                   cmdVars, cacheVars, utilVars>>

-----------------------------------------------------------------------------
(* Performance monitor *)

\* model bound: the number of leading recordMetric calls whose arguments are
\* free; every later call repeats the arguments of the call before it
MaxVaried == 2

MaxMetricsPerCommand == 1000

MonitoredCommands == {"test-command"}
\* a duration below the 5000 ms warning threshold and one above it
Durations == {100, 6001}

\* allMetrics.reduce((sum, m) => sum + m.duration, 0) over the elements lo..hi,
\* added up by halves
RECURSIVE sumDurations(_, _, _)
sumDurations(allMetrics, lo, hi) ==
    IF lo > hi THEN 0
    ELSE IF lo = hi THEN allMetrics[lo].duration
    ELSE LET mid == (lo + hi) \div 2
         IN  sumDurations(allMetrics, lo, mid) + sumDurations(allMetrics, mid + 1, hi)

\* Math.round(total / count) for integers total >= 0 and count > 0
roundedMean(total, count) == (2 * total + count) \div (2 * count)

\* the metrics list of the command after recordMetric pushed the metric
pushMetric(list, metric) ==
    LET pushed == Append(list, metric)
    IN  IF Len(pushed) > MaxMetricsPerCommand THEN Tail(pushed) ELSE pushed

\* updateStats(commandName, metric): the PerformanceStats of the command
\* after it; old is the stored one, Null when there is none, and allMetrics
\* is this.metrics.get(commandName)
updateStats(old, metric, allMetrics) ==
    LET st == IF old = Null
              THEN [totalCalls |-> 0, successCalls |-> 0, failedCalls |-> 0,
                    averageDuration |-> 0, minDuration |-> metric.duration,
                    maxDuration |-> 0, lastCallTime |-> now]
              ELSE old
    IN  [totalCalls |-> st.totalCalls + 1,
         successCalls |-> st.successCalls + (IF metric.success THEN 1 ELSE 0),
         failedCalls |-> st.failedCalls + (IF metric.success THEN 0 ELSE 1),
         averageDuration |-> roundedMean(sumDurations(allMetrics, 1, Len(allMetrics)),
                                        Len(allMetrics)),
         minDuration |-> IF metric.duration < st.minDuration
                         THEN metric.duration ELSE st.minDuration,
         maxDuration |-> IF metric.duration > st.maxDuration
                         THEN metric.duration ELSE st.maxDuration,
         lastCallTime |-> metric.timestamp]

\* getStats(commandName)
getStats(commandName) ==
    IF commandName \in DOMAIN stats THEN stats[commandName] ELSE Null

\* the arguments a call may have: any while fewer than MaxVaried calls were
\* made, those of the call before it afterwards
metricInputs(commandName) ==
    LET list == IF commandName \in DOMAIN metrics THEN metrics[commandName] ELSE << >>
    IN  IF Len(list) < MaxVaried
        THEN [duration : Durations, success : BOOLEAN]
        ELSE {[duration |-> list[Len(list)].duration,
               success |-> list[Len(list)].success]}

RecordMetric(commandName, duration, success) ==
    /\ commandName \in DOMAIN recorded
           => recorded[commandName].calls <= MaxMetricsPerCommand
    /\ LET metric == [commandName |-> commandName, duration |-> duration,
                      timestamp |-> now, success |-> success]
           list == IF commandName \in DOMAIN metrics
                   THEN metrics[commandName] ELSE << >>
           before == IF commandName \in DOMAIN recorded
                     THEN recorded[commandName] ELSE [calls |-> 0, sum |-> 0]
       IN  /\ metrics' = (commandName :> pushMetric(list, metric)) @@ metrics
           /\ stats' = (commandName :>
                            updateStats(getStats(commandName), metric,
                                        metrics'[commandName])) @@ stats
           /\ recorded' = (commandName :>
                               [calls |-> before.calls + 1,
                                sum |-> before.sum + duration]) @@ recorded
    /\ ret' = [op |-> "recordMetric", command |-> commandName]
    /\ UNCHANGED <<now, config, convVars, groupVars, personaVars, estVars,
                   cmdVars, cacheVars, apiError, saveVars, dbVars, modelVars,
                   retryRun>>

MonitorNext ==
    \E c \in MonitoredCommands :
        \E m \in metricInputs(c) : RecordMetric(c, m.duration, m.success)

-----------------------------------------------------------------------------
(* Delayed saves of the user memory.  saveUserMemoryAsync queues the user   *)
(* and re-arms one timeout; its callback saves every queued user in turn,   *)
(* awaiting the database twice per user, and clears the queue.  A Set is    *)
(* iterated in insertion order, entries added during the iteration are      *)
(* visited, and clear() ends the iteration over the entries it removed.     *)

MaxSaveCalls == 3

SaveUsers == {"u1", "u2"}

\* saveQueue.add(userId)
queueAdd(queue, userId) ==
    IF \E i \in 1..Len(queue) : queue[i] = userId
    THEN queue ELSE Append(queue, userId)

\* saveQueue.clear(): the iterators of the callbacks still running restart on
\* the emptied Set
afterClear(running) ==
    [i \in 1..Len(running) |-> [running[i] EXCEPT !.pos = 0]]

\* the callback with iterator position pos goes on to the next queued user
\* and runs saveUserMemory(id) up to `await database.get`, or, at the end of
\* the queue, clears it and returns; others are the other callbacks
FlushOn(pos, others) ==
    IF pos < Len(saveQueue)
    THEN /\ flushes' = Append(others, [pos |-> pos + 1, pc |-> "get",
                                         id |-> saveQueue[pos + 1]])
         /\ unsaved' = unsaved \ {saveQueue[pos + 1]}
         /\ UNCHANGED saveQueue
    ELSE /\ flushes' = afterClear(others)
         /\ saveQueue' = << >>
         /\ UNCHANGED unsaved

\* saveUserMemoryAsync(userId), called after the user's memory changed
SaveUserMemoryAsync(userId) ==
    /\ saveCalls < MaxSaveCalls
    /\ saveCalls' = saveCalls + 1
    /\ saveQueue' = queueAdd(saveQueue, userId)
    /\ saveInterval' = TRUE
    /\ unsaved' = unsaved \cup {userId}
    /\ ret' = [op |-> "saveUserMemoryAsync", user |-> userId]
    /\ UNCHANGED <<now, config, convVars, groupVars, personaVars, estVars,
                   cmdVars, cacheVars, apiError, metrics, stats, recorded, flushes,
                   dbVars, modelVars, retryRun>>

\* the timeout fires: the callback starts
TimerFires ==
    /\ saveInterval
    /\ saveInterval' = FALSE
    /\ FlushOn(0, flushes)
    /\ ret' = [op |-> "flush"]
    /\ UNCHANGED <<now, config, convVars, groupVars, personaVars, estVars,
                   cmdVars, cacheVars, apiError, metrics, stats, recorded, saveCalls,
                   dbVars, modelVars, retryRun>>

\* database.get of saveUserMemory returned: database.set or create is awaited
DatabaseGetReturns(i) ==
    /\ i \in 1..Len(flushes)
    /\ flushes[i].pc = "get"
    /\ flushes' = [flushes EXCEPT ![i].pc = "write"]
    /\ ret' = [op |-> "get", user |-> flushes[i].id]
    /\ UNCHANGED <<now, config, convVars, groupVars, personaVars, estVars,
                   cmdVars, cacheVars, apiError, metrics, stats, recorded,
                   saveQueue, saveInterval, unsaved, saveCalls, dbVars,
                   modelVars, retryRun>>

\* database.set or create returned: saveUserMemory returns and the loop of
\* the callback goes on
DatabaseWriteReturns(i) ==
    /\ i \in 1..Len(flushes)
    /\ flushes[i].pc = "write"
    /\ FlushOn(flushes[i].pos, RemoveAt(flushes, i))
    /\ ret' = [op |-> "saved", user |-> flushes[i].id]
    /\ UNCHANGED <<now, config, convVars, groupVars, personaVars, estVars,
                   cmdVars, cacheVars, apiError, metrics, stats, recorded,
                   saveInterval, saveCalls, dbVars, modelVars, retryRun>>

SaveNext ==
    \/ \E u \in SaveUsers : SaveUserMemoryAsync(u)
    \/ TimerFires
    \/ \E i \in 1..MaxSaveCalls : DatabaseGetReturns(i)
    \/ \E i \in 1..MaxSaveCalls : DatabaseWriteReturns(i)

\* timers fire and database calls return
SaveFairness ==
    /\ WF_vars(TimerFires)
    /\ \A i \in 1..MaxSaveCalls :
           WF_vars(DatabaseGetReturns(i)) /\ WF_vars(DatabaseWriteReturns(i))

-----------------------------------------------------------------------------
(* Properties of the delayed saves *)

\* C36: no queued save is lost: every call saveUserMemoryAsync(u) is
\* eventually followed by a saveUserMemory(u) that reads u's memory no earlier
\* than that call, given that timers fire and database calls return, also
\* when the call arrives while the callback of an earlier batch is awaiting
\* its writes.
C36_NoQueuedSaveLost ==
    \A u \in SaveUsers : (u \in unsaved) ~> (u \notin unsaved)

-----------------------------------------------------------------------------
(* Conversation store with persistence (ConversationManagerWithDB), with   *)
(* enablePersistence set and a database given.  A JSON text is the list of *)
(* its objects, each the tuple of its values in key order.                 *)

DbKeys == {"u1"}

\* this.config.defaultPersona || 'assistant'
dbDefaultPersona == IF config.defaultPersona = ""
                    THEN "assistant" ELSE config.defaultPersona

\* JSON.stringify(context.messages)
JSONstringify(messages) ==
    [i \in 1..Len(messages) |->
        <<messages[i].role, messages[i].content,
          messages[i].timestamp, messages[i].tokens>>]

\* JSON.parse(record.messages)
JSONparse(json) ==
    [i \in 1..Len(json) |->
        [role |-> json[i][1], content |-> json[i][2],
         timestamp |-> json[i][3], tokens |-> json[i][4]]]

\* the store after getConversation(sessionId) of the persistent manager
dbGetConversation(convs, sessionId) ==
    IF sessionId \notin DOMAIN convs \/ now - convs[sessionId].updatedAt > timeout
    THEN (sessionId :> [sessionId |-> sessionId,
                        messages |-> << >>,
                        persona |-> dbDefaultPersona,
                        createdAt |-> now,
                        updatedAt |-> now,
                        maxHistoryLength |-> configMaxHistoryLength]) @@ convs
    ELSE convs

\* the context loadConversationFromDB builds from a record
contextOfRecord(sessionId, record) ==
    [sessionId |-> sessionId,
     messages |-> JSONparse(record.messages),
     persona |-> record.persona,
     createdAt |-> record.createdAt,
     updatedAt |-> record.updatedAt,
     maxHistoryLength |-> configMaxHistoryLength]

\* the record saveConversationToDB builds from a context
recordOfContext(sessionId, userId, context) ==
    [sessionId |-> sessionId,
     userId |-> userId,
     persona |-> context.persona,
     messages |-> JSONstringify(context.messages),
     totalTokens |-> totalTokens(context.messages),
     messageCount |-> Len(context.messages),
     createdAt |-> context.createdAt,
     updatedAt |-> context.updatedAt]

DbGetConversation(k) ==
    /\ dbConversations' = dbGetConversation(dbConversations, k)
    /\ loaded' = [loaded EXCEPT ![k] = Null]
    /\ ret' = [op |-> "dbGetConversation", key |-> k, loaded |-> loaded[k],
               result |-> dbConversations'[k]]
    /\ UNCHANGED <<now, config, convVars, groupVars, personaVars, estVars,
                   cmdVars, cacheVars, apiError, metrics, stats, recorded,
                   saveVars, database, modelVars, retryRun>>

DbAddMessage(k, message) ==
    /\ LET got == dbGetConversation(dbConversations, k)
           context == got[k]
           pushed == Append(context.messages,
                            Message(message.role, message.content))
       IN  dbConversations' =
               [got EXCEPT ![k] =
                   [context EXCEPT
                       !.messages = trimHistory(pushed, context.maxHistoryLength * 2),
                       !.updatedAt = now]]
    /\ loaded' = [loaded EXCEPT ![k] = Null]
    /\ ret' = [op |-> "dbAddMessage", key |-> k]
    /\ UNCHANGED <<now, config, convVars, groupVars, personaVars, estVars,
                   cmdVars, cacheVars, apiError, metrics, stats, recorded,
                   saveVars, database, modelVars, retryRun>>

\* saveConversationToDB(sessionId, userId): the record is built before the
\* table is read and written
SaveConversationToDB(k, userId) ==
    /\ dbConversations' = dbGetConversation(dbConversations, k)
    /\ database' = (k :> recordOfContext(k, userId, dbConversations'[k])) @@ database
    /\ loaded' = [loaded EXCEPT ![k] = Null]
    /\ ret' = [op |-> "saveConversationToDB", key |-> k, result |-> TRUE]
    /\ UNCHANGED <<now, config, convVars, groupVars, personaVars, estVars,
                   cmdVars, cacheVars, apiError, metrics, stats, recorded,
                   saveVars, modelVars, retryRun>>

\* loadConversationFromDB(sessionId), from the moment database.get returned
LoadConversationFromDB(k) ==
    /\ IF k \in DOMAIN database
       THEN /\ dbConversations' =
                   (k :> contextOfRecord(k, database[k])) @@ dbConversations
            /\ loaded' = [loaded EXCEPT ![k] = dbConversations'[k]]
       ELSE /\ loaded' = [loaded EXCEPT ![k] = Null]
            /\ UNCHANGED dbConversations
    /\ ret' = [op |-> "loadConversationFromDB", key |-> k,
               result |-> k \in DOMAIN database]
    /\ UNCHANGED <<now, config, convVars, groupVars, personaVars, estVars,
                   cmdVars, cacheVars, apiError, metrics, stats, recorded,
                   saveVars, database, modelVars, retryRun>>

PersistenceNext ==
    \/ Tick
    \/ \E k \in DbKeys : DbGetConversation(k)
    \/ \E k \in DbKeys, m \in NewMessages : DbAddMessage(k, m)
    \/ \E k \in DbKeys : SaveConversationToDB(k, k)
    \/ \E k \in DbKeys : LoadConversationFromDB(k)

-----------------------------------------------------------------------------
(* Properties of the conversation store with persistence *)

\* C37: after loadConversationFromDB(k) returned true, the next
\* getConversation(k) returns the context that was loaded (the record's
\* messages, persona, createdAt and updatedAt), for every stored record.
C37_LoadedContextIsReturned ==
    (ret.op = "dbGetConversation" /\ ret.loaded # Null) =>
        /\ ret.result.messages = ret.loaded.messages
        /\ ret.result.persona = ret.loaded.persona
        /\ ret.result.createdAt = ret.loaded.createdAt
        /\ ret.result.updatedAt = ret.loaded.updatedAt

-----------------------------------------------------------------------------
(* Model manager.  A ModelConfig is the record of its name and maxTokens;  *)
(* the Map keeps a model under the name it was stored with.                *)

\* config.model of the plugin: the one model of pluginConfig.models and its
\* defaultModel
PluginModel == "qwen-plus"

ModelNames == {"qwen-plus", "qwen-max", "my-model"}
ModelUpdates == {[name |-> "qwen-max"], [name |-> "renamed"], [description |-> "d2"]}

ModelConfig(name) == [name |-> name, description |-> "d1"]

\* the constructor: config.models.forEach(model => models.set(model.name, model))
initialModels == (PluginModel :> ModelConfig(PluginModel))

\* Object.assign(model, updates)
assign(model, updates) ==
    [f \in DOMAIN model |-> IF f \in DOMAIN updates THEN updates[f] ELSE model[f]]

\* models.get(currentModel)
getCurrentModel ==
    IF currentModel \in DOMAIN models THEN models[currentModel] ELSE Undefined

\* removeModel without the test on the current model
removeModelUnguarded(name) ==
    [models |-> Without(models, name), result |-> name \in DOMAIN models]

\* removeModel(name): the map and the value returned
removeModel(name) ==
    IF name = currentModel
    THEN [models |-> models, result |-> FALSE]
    ELSE [models |-> Without(models, name), result |-> name \in DOMAIN models]

SetCurrentModel(name) ==
    /\ currentModel' = IF name \in DOMAIN models THEN name ELSE currentModel
    /\ ret' = [op |-> "setCurrentModel", name |-> name,
               result |-> name \in DOMAIN models]
    /\ UNCHANGED <<now, config, convVars, groupVars, personaVars, estVars,
                   cmdVars, cacheVars, apiError, metrics, stats, recorded,
                   saveVars, dbVars, models, retryRun>>

AddModel(model) ==
    /\ models' = IF model.name \in DOMAIN models
                 THEN models ELSE (model.name :> model) @@ models
    /\ ret' = [op |-> "addModel", name |-> model.name,
               result |-> model.name \notin DOMAIN models]
    /\ UNCHANGED <<now, config, convVars, groupVars, personaVars, estVars,
                   cmdVars, cacheVars, apiError, metrics, stats, recorded,
                   saveVars, dbVars, currentModel, retryRun>>

RemoveModel(name) ==
    /\ models' = removeModel(name).models
    /\ ret' = [op |-> "removeModel", name |-> name,
               result |-> removeModel(name).result]
    /\ UNCHANGED <<now, config, convVars, groupVars, personaVars, estVars,
                   cmdVars, cacheVars, apiError, metrics, stats, recorded,
                   saveVars, dbVars, currentModel, retryRun>>

UpdateModel(name, updates) ==
    /\ models' = IF name \in DOMAIN models
                 THEN [models EXCEPT ![name] = assign(@, updates)]
                 ELSE models
    /\ ret' = [op |-> "updateModel", name |-> name,
               result |-> name \in DOMAIN models]
    /\ UNCHANGED <<now, config, convVars, groupVars, personaVars, estVars,
                   cmdVars, cacheVars, apiError, metrics, stats, recorded,
                   saveVars, dbVars, currentModel, retryRun>>

ModelNext ==
    \/ \E name \in ModelNames : SetCurrentModel(name)
    \/ \E name \in ModelNames : AddModel(ModelConfig(name))
    \/ \E name \in ModelNames : RemoveModel(name)
    \/ \E name \in ModelNames, updates \in ModelUpdates : UpdateModel(name, updates)

-----------------------------------------------------------------------------
(* Properties of the model manager *)

\* C38: the current model always exists: constructed with a default model
\* that is in its model list, the manager returns a model from
\* getCurrentModel() after any sequence of setCurrentModel, addModel,
\* removeModel and updateModel calls.
C38_CurrentModelExists == getCurrentModel # Undefined

\* C38 witness: removeModel refused the current model, which is not the
\* constructor's default and has been renamed by updateModel.
C38_Witness ==
    /\ ret.op = "removeModel"
    /\ ret.name = currentModel
    /\ ~ret.result
    /\ currentModel # PluginModel
    /\ getCurrentModel.name # currentModel

-----------------------------------------------------------------------------
(* retry(fn, maxRetries, delayMs).  A value fn rejects with is an Error     *)
(* object, told from every other object by its id, or a string; an Error    *)
(* that retry creates has id 0.                                             *)

MaxRetriesInput == 3

RetryCounts == 0..MaxRetriesInput
DelayInputs == {1, 1000}
Thrown ==
    {[isError |-> TRUE, id |-> 1, message |-> "boom"],
     [isError |-> TRUE, id |-> 2, message |-> "timeout"],
     [isError |-> FALSE, id |-> 0, message |-> "boom"]}
Resolved == {[value |-> "ok"]}

\* retry has not been called
NoRetry ==
    [pc |-> "idle", maxRetries |-> 0, delayMs |-> 0, i |-> 0, calls |-> 0,
     thrown |-> << >>, waits |-> << >>, lastError |-> Null, outcome |-> Null]

\* new Error('Max retries exceeded')
MaxRetriesExceeded == [isError |-> TRUE, id |-> 0, message |-> "Max retries exceeded"]

\* error instanceof Error ? error : new Error(String(error))
toError(error) ==
    IF error.isError THEN error
    ELSE [isError |-> TRUE, id |-> 0, message |-> error.message]

\* Math.pow(2, i)
RECURSIVE pow2(_)
pow2(i) == IF i = 0 THEN 1 ELSE 2 * pow2(i - 1)

\* the same delay before every attempt
backoffConstant(delayMs, i) == delayMs

\* delayMs * Math.pow(2, i)
backoff(delayMs, i) == delayMs * pow2(i)

\* the loop at index i: fn() is awaited if i < maxRetries, else the throw
\* after the loop
loopAt(run, i) ==
    IF i < run.maxRetries
    THEN [run EXCEPT !.i = i, !.pc = "fn", !.calls = @ + 1]
    ELSE [run EXCEPT !.i = i, !.pc = "rejected",
                     !.outcome = IF run.lastError # Null
                                 THEN run.lastError ELSE MaxRetriesExceeded]

\* retry(fn, maxRetries, delayMs) up to its first await
Retry(maxRetries, delayMs) ==
    /\ retryRun.pc = "idle"
    /\ retryRun' = loopAt([NoRetry EXCEPT !.maxRetries = maxRetries,
                                          !.delayMs = delayMs], 0)
    /\ ret' = [op |-> "retry"]
    /\ UNCHANGED <<now, config, convVars, groupVars, personaVars, estVars,
                   cmdVars, cacheVars, apiError, metrics, stats, recorded,
                   saveVars, dbVars, modelVars>>

\* fn() resolved: retry returns the value
FnResolves(value) ==
    /\ retryRun.pc = "fn"
    /\ retryRun' = [retryRun EXCEPT !.pc = "returned", !.outcome = value]
    /\ ret' = [op |-> "resolved"]
    /\ UNCHANGED <<now, config, convVars, groupVars, personaVars, estVars,
                   cmdVars, cacheVars, apiError, metrics, stats, recorded,
                   saveVars, dbVars, modelVars>>

\* fn() rejected: the catch block, then the delay or the next turn of the loop
FnRejects(error) ==
    /\ retryRun.pc = "fn"
    /\ LET caught == [retryRun EXCEPT !.lastError = toError(error),
                                      !.thrown = Append(@, error)]
       IN  retryRun' =
               IF caught.i < caught.maxRetries - 1
               THEN [caught EXCEPT
                        !.pc = "delay",
                        !.waits = Append(@, backoff(caught.delayMs, caught.i))]
               ELSE loopAt(caught, caught.i + 1)
    /\ ret' = [op |-> "rejected"]
    /\ UNCHANGED <<now, config, convVars, groupVars, personaVars, estVars,
                   cmdVars, cacheVars, apiError, metrics, stats, recorded,
                   saveVars, dbVars, modelVars>>

\* the timeout of delay(ms) fired: the next turn of the loop
DelayElapses ==
    /\ retryRun.pc = "delay"
    /\ retryRun' = loopAt(retryRun, retryRun.i + 1)
    /\ ret' = [op |-> "delayed"]
    /\ UNCHANGED <<now, config, convVars, groupVars, personaVars, estVars,
                   cmdVars, cacheVars, apiError, metrics, stats, recorded,
                   saveVars, dbVars, modelVars>>

RetryNext ==
    \/ \E n \in RetryCounts, d \in DelayInputs : Retry(n, d)
    \/ \E v \in Resolved : FnResolves(v)
    \/ \E e \in Thrown : FnRejects(e)
    \/ DelayElapses

-----------------------------------------------------------------------------
(* Properties of retry *)

\* calls of fn, stop at the first success, and the waits: fn is called at
\* most maxRetries times; a returned value is that of the first call that
\* succeeded; the wait between attempts i and i+1 is delayMs x 2^i and there
\* is none after the final failed attempt
callsAndWaits ==
    /\ retryRun.calls <= retryRun.maxRetries
    /\ retryRun.pc = "returned" =>
           /\ retryRun.calls = Len(retryRun.thrown) + 1
           /\ retryRun.outcome \in Resolved
    /\ retryRun.pc = "rejected" =>
           /\ Len(retryRun.thrown) = retryRun.maxRetries
           /\ retryRun.calls = retryRun.maxRetries
    /\ \A j \in 1..Len(retryRun.waits) :
           retryRun.waits[j] = retryRun.delayMs * pow2(j - 1)
    /\ Len(retryRun.waits) =
           IF retryRun.pc = "delay" THEN retryRun.calls
           ELSE IF retryRun.calls = 0 THEN 0 ELSE retryRun.calls - 1

\* C39 as stated: retry(fn, maxRetries, delayMs) calls fn at most maxRetries
\* times, stops at the first call that succeeds and returns its value, and
\* after maxRetries failed calls rejects with the error of the last call;
\* between consecutive attempts i and i+1 it waits delayMs x 2^i, and it does
\* not wait after the final failed attempt.
C39_RejectsWithLastError ==
    /\ callsAndWaits
    /\ (retryRun.pc = "rejected" /\ retryRun.thrown # << >>) =>
           retryRun.outcome = retryRun.thrown[Len(retryRun.thrown)]

\* C39, amended: as stated, except that retry rejects with the value the last
\* call rejected with only if that value is an Error; for any other value it
\* rejects with a new Error whose message is String(value), and with
\* maxRetries = 0 it calls nothing and rejects with 'Max retries exceeded'.
C39_RejectsWithLastErrorAsError ==
    /\ callsAndWaits
    /\ retryRun.pc = "rejected" =>
           retryRun.outcome =
               IF retryRun.thrown = << >> THEN MaxRetriesExceeded
               ELSE toError(retryRun.thrown[Len(retryRun.thrown)])

\* C39 witness: every one of the most attempts failed, the last one with a
\* string, after a wait before each attempt but the first.
C39_Witness ==
    /\ retryRun.pc = "rejected"
    /\ retryRun.maxRetries = MaxRetriesInput
    /\ ~retryRun.thrown[MaxRetriesInput].isError
    /\ Len(retryRun.waits) = MaxRetriesInput - 1

-----------------------------------------------------------------------------
(* Token estimator as a machine: one call on an input text *)

Estimate ==
    /\ est = -1
    /\ est' = estimateTokens(text)
    /\ UNCHANGED <<now, config, convVars, groupVars, personaVars, ret, text,
                   cacheVars, cmdVars, utilVars>>

-----------------------------------------------------------------------------
(* Properties of the token-budget truncation *)

RECURSIVE SumTokens(_)
SumTokens(messages) ==
    IF messages = << >> THEN 0
    ELSE tokensOf(Head(messages)) + SumTokens(Tail(messages))

\* the last n elements of s
LastN(s, n) == SubSeq(s, Len(s) - n + 1, Len(s))

Built == ret.op = "buildContextMessages"

\* C1: whenever maxContextTokens is smaller than the token sum of the
\* assembled list [system, ...history, user], the list buildContextMessages
\* returns still has the system message as its first element.
C1_SystemMessageFirst ==
    (Built /\ ret.budget < SumTokens(ret.assembled))
        => /\ ret.result # << >>
           /\ ret.result[1] = ret.assembled[1]

\* C2: the list returned by the truncation keeps the assembled order and has
\* no gap: apart from the system message (the first element of the assembled
\* list), the kept messages are an unbroken tail of the assembled list.
C2_NoGap ==
    Built =>
        \E n \in 0..Len(ret.assembled) :
            \/ ret.result = LastN(ret.assembled, n)
            \/ /\ n < Len(ret.assembled)
               /\ ret.result = <<ret.assembled[1]>> \o LastN(ret.assembled, n)

\* C2 witness: a build that dropped part of the history and kept a newer part.
C2_Witness ==
    /\ Built
    /\ Len(ret.assembled) >= 4
    /\ Len(ret.result) >= 2
    /\ Len(ret.result) < Len(ret.assembled)

BuiltEither == ret.op \in {"buildContextMessages", "buildGroupContextMessages"}

\* C29: buildContextMessages and buildGroupContextMessages always return a
\* non-empty list whose last element is the new user message, whatever the
\* stored history, the system prompt, the user message and the token budget.
C29_NonEmptyEndsWithUserMessage ==
    BuiltEither =>
        /\ ret.result # << >>
        /\ ret.result[Len(ret.result)] = ret.assembled[Len(ret.assembled)]

\* C30: if the list returned by buildContextMessages is shorter than the
\* assembled list [system, ...history, user], the token counts of the
\* returned messages add up to at most maxContextTokens.
C30_BudgetRespectedWhenDropped ==
    (Built /\ Len(ret.result) < Len(ret.assembled))
        => SumTokens(ret.result) <= ret.budget

\* C30 witness: a build that dropped the older part of the assembled list and
\* returned messages that fill the budget exactly.
C30_Witness ==
    /\ Built
    /\ Len(ret.result) < Len(ret.assembled)
    /\ ret.result # << >>
    /\ SumTokens(ret.result) = ret.budget

-----------------------------------------------------------------------------
(* Properties of the conversation store *)

Min(a, b) == IF a < b THEN a ELSE b

\* C3: after any sequence of addMessage calls on a key whose context has
\* maxHistoryLength = h, the stored messages number at most 2h and are
\* exactly the most recently added messages, in insertion order.
C3_HistoryBound ==
    \A k \in DOMAIN conversations :
        LET h == conversations[k].maxHistoryLength
            stored == conversations[k].messages
        IN  /\ Len(stored) <= 2 * h
            /\ stored = LastN(added[k], Min(Len(added[k]), 2 * h))

\* C3 witness: more than 2h messages were added, so the oldest was dropped.
C3_Witness ==
    \E k \in DOMAIN conversations :
        /\ ret = [op |-> "addMessage", key |-> k]
        /\ Len(added[k]) > 2 * conversations[k].maxHistoryLength
        /\ conversations[k].messages # << >>

GotIdle ==
    /\ ret.op = "getConversation"
    /\ ret.existed
    /\ ret.idle > timeout

\* C4: if a context for key k exists and no operation touches k for more than
\* the idle timeout, the next getConversation(k) returns a context with empty
\* messages, the configured default persona and a createdAt strictly greater
\* than the original one, and this context replaces the old one in the store.
C4_IdleExpiryRecreation ==
    GotIdle =>
        /\ ret.result.messages = << >>
        /\ ret.result.persona = defaultPersona
        /\ ret.result.createdAt > ret.before
        /\ conversations[ret.key] = ret.result

\* C4 witness: getConversation on a key left idle for more than the timeout.
C4_Witness ==
    /\ GotIdle
    /\ ret.before >= 0
    /\ ret.result.createdAt = now

\* C16 as stated: clearHistory(key), called at any time on a key that has a
\* context, empties that context's messages and updates updatedAt while
\* leaving its persona and createdAt unchanged.
C16_ClearKeepsPersonaAndCreation ==
    (ret.op = "clearHistory" /\ ret.existed) =>
        LET context == conversations[ret.key]
        IN  /\ context.messages = << >>
            /\ context.updatedAt = accessed[ret.key]
            /\ context.persona = ret.before.persona
            /\ context.createdAt = ret.before.createdAt

\* C16, amended: clearHistory(key), called on a key whose context has not been
\* idle for more than the timeout, empties that context's messages and
\* updates updatedAt while leaving its persona and createdAt unchanged; called
\* on a key whose context has been idle for longer, it replaces the context
\* by a fresh one (no messages, default persona, createdAt = updatedAt = the
\* time of the call).
C16_ClearKeepsUnlessIdle ==
    (ret.op = "clearHistory" /\ ret.existed) =>
        LET context == conversations[ret.key]
        IN  /\ context.messages = << >>
            /\ context.updatedAt = accessed[ret.key]
            /\ IF ret.wasStale
               THEN /\ context.persona = defaultPersona
                    /\ context.createdAt = accessed[ret.key]
               ELSE /\ context.persona = ret.before.persona
                    /\ context.createdAt = ret.before.createdAt

\* C16 witness: clearHistory on a live context that held messages under a
\* persona other than the default one, later than the context's creation.
C16_Witness ==
    /\ ret.op = "clearHistory"
    /\ ret.existed
    /\ ~ret.wasStale
    /\ ret.before.messages # << >>
    /\ ret.before.persona # defaultPersona
    /\ ret.before.createdAt < accessed[ret.key]
    /\ ret.before.updatedAt < accessed[ret.key]

StatsOps == {"getConversationTokens", "getMessageCount",
             "getConversationRounds", "getConversationStats"}

\* C17: the statistics accessors getConversationStats, getMessageCount,
\* getConversationRounds and getConversationTokens are pure reads: calling
\* them for any key at any time leaves the conversation store unchanged (same
\* keys, same messages, persona, createdAt and updatedAt for every key).
C17_StatsArePureReads ==
    ret.op \in StatsOps => conversations = ret.before

\* C18: cleanupExpiredConversations() removes exactly the contexts whose
\* updatedAt is older than the idle timeout, leaves every other context
\* unchanged, and returns the number of contexts it removed.
C18_SweepRemovesExactlyIdle ==
    ret.op = "cleanupExpiredConversations" =>
        LET idle == {k \in DOMAIN ret.before :
                        ret.at - ret.before[k].updatedAt > timeout}
        IN  /\ DOMAIN conversations = DOMAIN ret.before \ idle
            /\ \A k \in DOMAIN conversations : conversations[k] = ret.before[k]
            /\ ret.result = Cardinality(idle)

\* C18 witness: a sweep that removed one context and kept another, which was
\* idle for exactly the timeout and holds a message.
C18_Witness ==
    /\ ret.op = "cleanupExpiredConversations"
    /\ ret.result = 1
    /\ \E k \in DOMAIN conversations :
           /\ ret.at - conversations[k].updatedAt = timeout
           /\ conversations[k].messages # << >>

ConvOps == {"getConversation", "addMessage", "clearHistory", "setPersona",
            "buildContextMessages"}

\* C21: getConversation, addMessage, clearHistory, setPersona and
\* buildContextMessages on key k never change the messages, persona,
\* createdAt or updatedAt of the context of any other key: every step of one
\* of these operations leaves the context of every other key as it was.
C21_PerKeyIsolation ==
    [][ret'.op \in ConvOps =>
          \A j \in DOMAIN conversations \ {ret'.key} :
              /\ j \in DOMAIN conversations'
              /\ conversations'[j] = conversations[j]]_vars

\* C21 witness: an operation on one key that changed that key's context
\* while another key holds a context with messages under its own persona.
C21_Witness ==
    /\ ret.op \in {"clearHistory", "addMessage", "setPersona"}
    /\ ret.key \in DOMAIN conversations
    /\ conversations[ret.key].updatedAt = now
    /\ \E j \in DOMAIN conversations \ {ret.key} :
           /\ conversations[j].messages # << >>
           /\ conversations[j].persona # defaultPersona
           /\ conversations[j].updatedAt < now

-----------------------------------------------------------------------------
(* Properties of the group session layer *)

\* getUserGroups(userId), as a set
getUserGroups(userId) ==
    IF userId \in DOMAIN userGroupMap THEN userGroupMap[userId] ELSE {}

\* the member set of the group's current session
membersOf(groupId) ==
    IF groupId \in DOMAIN groupSessions THEN groupSessions[groupId].members ELSE {}

\* C5: in every state reachable by getGroupSession, addMember, removeMember,
\* addGroupMessage, deleteGroupSession, cleanupExpiredGroupSessions and the
\* passage of time, g is in getUserGroups(u) if and only if u is in the member
\* set of g's current session.
C5_ReverseIndexConsistent ==
    \A u \in Users, g \in Groups :
        g \in getUserGroups(u) <=> u \in membersOf(g)

\* C6: after deleteGroupSession(g) returns true, g is in no user's
\* getUserGroups result; the reverse index never holds an empty set; and after
\* removeMember(g, u) on an existing session g is not in getUserGroups(u).
C6_DeleteClearsIndex ==
    /\ (ret.op = "deleteGroupSession" /\ ret.result)
           => \A u \in Users : ret.group \notin getUserGroups(u)
    /\ \A u \in DOMAIN userGroupMap : userGroupMap[u] # {}
    /\ (ret.op = "removeMember" /\ ret.existed)
           => ret.group \notin getUserGroups(ret.user)

\* C7: when the group's enableSharedContext flag is false,
\* buildGroupContextMessages returns exactly two messages, the system message
\* followed by the new user message.
C7_TwoMessagesWhenNotShared ==
    (ret.op = "buildGroupContextMessages" /\ ~ret.shared)
        => /\ Len(ret.result) = 2
           /\ ret.result = ret.assembled
           /\ ret.result[1].role = "system"
           /\ ret.result[2].role = "user"

\* the group's session holds maxMembers members or more
full(groupId) ==
    /\ groupId \in DOMAIN groupSessions
    /\ Cardinality(groupSessions[groupId].members)
           >= groupSessions[groupId].config.maxMembers

\* the step is a call of addMember on a group whose session is full
addMemberOnFull ==
    /\ ret'.op = "addMember"
    /\ AddMember(ret'.group, ret'.user)
    /\ full(ret'.group)

\* every session has at most maxMembers members
withinCapacity ==
    \A g \in DOMAIN groupSessions :
        Cardinality(groupSessions[g].members) <= groupSessions[g].config.maxMembers

\* C22 as stated: in every reachable state a group's member set has at most
\* maxMembers users, and addMember on a group that already has maxMembers
\* members is a no-op refusal: it evicts nobody and leaves the member set and
\* the user-to-groups reverse index unchanged.
C22_CapacityRefusal ==
    /\ []withinCapacity
    /\ [][addMemberOnFull =>
              /\ ret'.group \in DOMAIN groupSessions'
              /\ groupSessions'[ret'.group].members
                     = groupSessions[ret'.group].members
              /\ userGroupMap' = userGroupMap]_vars

\* C22, amended: in every reachable state a group's member set has at most
\* maxMembers users, and addMember on a group that already has maxMembers
\* members and has not been idle for longer than the timeout is a no-op
\* refusal: it evicts nobody and leaves the session and the user-to-groups
\* reverse index unchanged.  On a group idle for longer than the timeout
\* addMember first replaces the session by a fresh one, of which the user
\* becomes the only member.
C22_CapacityRefusalUnlessIdle ==
    /\ []withinCapacity
    /\ [][addMemberOnFull =>
              IF GroupStale(groupSessions, ret'.group)
              THEN /\ groupSessions'[ret'.group].members = {ret'.user}
                   /\ groupSessions'[ret'.group].createdAt = now
                   /\ ~ret'.refused
              ELSE /\ groupSessions' = groupSessions
                   /\ userGroupMap' = userGroupMap
                   /\ ret'.refused]_vars

\* C22 witness: addMember of a further user was refused by a session that
\* holds maxMembers members.
C22_Witness ==
    /\ ret.op = "addMember"
    /\ ret.refused
    /\ ~ret.wasStale
    /\ Cardinality(groupSessions[ret.group].members) = MaxMembers
    /\ ret.user \notin groupSessions[ret.group].members
    /\ ret.user \notin DOMAIN userGroupMap

GroupOps == {"getGroupSession", "addMember", "removeMember", "clearGroupHistory",
             "setGroupSharedContext", "addGroupMessage",
             "buildGroupContextMessages"}

\* the elements of a sequence
Elements(s) == {s[i] : i \in 1..Len(s)}

\* C27: a stale group session is discarded, not revived: whichever group
\* operation is the first one called on a group after its session has been
\* idle for longer than the timeout, none of the messages stored before the
\* idle period is in the session afterwards, so that none can appear in a
\* later buildGroupContextMessages result, and none is in the result when
\* that first operation is buildGroupContextMessages itself.
C27_StaleGroupSessionDiscarded ==
    [][\A g \in DOMAIN groupSessions :
          (/\ now' = now
           /\ ret'.op \in GroupOps
           /\ ret'.group = g
           /\ GroupStale(groupSessions, g)) =>
              LET old == Elements(groupSessions[g].messages)
              IN  /\ g \in DOMAIN groupSessions' =>
                         Elements(groupSessions'[g].messages) \cap old = {}
                  /\ ret'.op = "buildGroupContextMessages" =>
                         Elements(ret'.result) \cap old = {}]_vars

\* C34: in every reachable state of a group session, groupMessages and
\* messages hold the same messages in the same order (same length, same
\* content and sender), under any sequence of addGroupMessage,
\* clearGroupHistory, trimming and session recreation.
C34_GroupMessagesMirrorMessages ==
    \A g \in DOMAIN groupSessions :
        groupSessions[g].groupMessages = groupSessions[g].messages

\* C34 witness: addGroupMessage trimmed both lists of a session to the
\* history limit.
C34_Witness ==
    /\ ret.op = "addGroupMessage"
    /\ ret.trimmed
    /\ Len(groupSessions[ret.group].groupMessages)
           = 2 * groupSessions[ret.group].maxHistoryLength

-----------------------------------------------------------------------------
(* Properties of the persona manager *)

\* C9 as stated: for every alias a of the alias table mapping to canonical
\* name c, getPersona(a) returns the persona whose name is c, in every state
\* reachable by addCustomPersona and removeCustomPersona.
C9_AliasRoundTrip ==
    \A a \in DOMAIN personaAliases :
        /\ getPersona(a) # Undefined
        /\ getPersona(a).name = personaAliases[a]

\* C9, amended: for every alias a mapping to canonical name c such that no
\* custom persona is named a, getPersona(a) returns the persona named c.
C9_AliasRoundTripUnshadowed ==
    \A a \in DOMAIN personaAliases :
        a \notin DOMAIN userPersonas =>
            /\ getPersona(a) # Undefined
            /\ getPersona(a).name = personaAliases[a]

\* C9 witness: with a custom persona present, getPersona was called on an
\* alias other than the canonical name and returned the canonical persona.
C9_Witness ==
    /\ ret.op = "getPersona"
    /\ userPersonas # << >>
    /\ ret.name \in DOMAIN personaAliases
    /\ ret.name \notin DOMAIN userPersonas
    /\ personaAliases[ret.name] # ret.name
    /\ ret.result # Undefined
    /\ ret.result.name = personaAliases[ret.name]

\* C10: no name is both a built-in and a custom persona, every persona is
\* stored under its own name, the built-in set is unchanged, addCustomPersona
\* returns false when the name equals a built-in or an existing custom name,
\* and removeCustomPersona returns true only for a name that was a custom
\* persona.
C10_NamesUniqueBuiltinsProtected ==
    /\ DOMAIN personas \cap DOMAIN userPersonas = {}
    /\ \A n \in DOMAIN userPersonas : userPersonas[n].name = n
    /\ personas = initialPersonas
    /\ (ret.op = "addCustomPersona" /\ (ret.wasBuiltin \/ ret.wasCustom))
           => ~ret.result
    /\ (ret.op = "removeCustomPersona" /\ ret.result)
           => (ret.wasCustom /\ ~ret.wasBuiltin)

\* C10 witness: addCustomPersona refused a built-in name while a custom
\* persona was stored.
C10_Witness ==
    /\ ret.op = "addCustomPersona"
    /\ ret.wasBuiltin
    /\ ~ret.result
    /\ userPersonas # << >>

\* C11: switchPersona(userId, nameOrAlias) returns true exactly when the name
\* or alias resolves to a persona, and then the user's stored state is that
\* persona's own name, a key of one of the two persona maps, so that
\* getCurrentPersonaName(userId) equals getPersona(nameOrAlias).name.
C11_SwitchStoresCanonicalName ==
    ret.op = "switchPersona" =>
        /\ ret.result <=> getPersona(ret.name) # Undefined
        /\ ret.result =>
               /\ ret.user \in DOMAIN userStates
               /\ userStates[ret.user] = getPersona(ret.name).name
               /\ userStates[ret.user] \in DOMAIN personas \cup DOMAIN userPersonas
               /\ getCurrentPersonaName(ret.user) = getPersona(ret.name).name

\* C11 witness: a switch through an alias that is not the persona's name.
C11_Witness ==
    /\ ret.op = "switchPersona"
    /\ ret.result
    /\ ret.name \notin DOMAIN personas \cup DOMAIN userPersonas
    /\ userStates[ret.user] # ret.name
    /\ userStates[ret.user] # configuredPersona

\* the user's selected name resolves to a persona
selectionResolves(userId) ==
    /\ userId \in DOMAIN userStates
    /\ getPersona(userStates[userId]) # Undefined

C33_SelectedPersonaExists ==
    \A u \in PersonaUsers :
        getCurrentPersona(u).name = getCurrentPersonaName(u)

\* the step is a call of switchPersona with a name that does not resolve
switchUnresolvable ==
    /\ ret'.op = "switchPersona"
    /\ SwitchPersona(ret'.user, ret'.name)
    /\ getPersona(ret'.name) = Undefined

\* the step is a call of addCustomPersona with the name of a stored persona
addColliding ==
    /\ ret'.op = "addCustomPersona"
    /\ \E d \in Descriptions :
           AddCustomPersona([name |-> ret'.name, description |-> d])
    /\ ret'.name \in DOMAIN personas \cup DOMAIN userPersonas

\* the step is a call of removeCustomPersona with a built-in name or with a
\* name no custom persona has
removeBuiltinOrUnknown ==
    /\ ret'.op = "removeCustomPersona"
    /\ RemoveCustomPersona(ret'.name)
    /\ ret'.name \in DOMAIN personas \/ ret'.name \notin DOMAIN userPersonas

\* C23: switchPersona with an unresolvable name, addCustomPersona with a
\* colliding name, and removeCustomPersona of a built-in or unknown name each
\* return false and leave the built-in set, the custom set and every user's
\* selected persona exactly as before.
C23_FailuresChangeNothing ==
    [][(switchUnresolvable \/ addColliding \/ removeBuiltinOrUnknown) =>
          /\ ret'.result = FALSE
          /\ personas' = personas
          /\ userPersonas' = userPersonas
          /\ userStates' = userStates]_vars

\* C23 witness: a user who has selected a custom persona called switchPersona
\* with a name that does not resolve.
C23_Witness ==
    /\ ret.op = "switchPersona"
    /\ ~ret.result
    /\ ret.user \in DOMAIN userStates
    /\ userStates[ret.user] \in DOMAIN userPersonas
    /\ getPersona(ret.name) = Undefined

-----------------------------------------------------------------------------
(* Properties of the cache layer *)

keyOf(c) == generateKey(c.namespace, c.id)

\* C13 as stated: after set(ns, id, v, ttl), get(ns, id) returns v as long as
\* now - timestamp <= ttl and the entry was not deleted, cleared, overwritten
\* or evicted; once now - timestamp > ttl, get returns not-found and the entry
\* is removed from the cache.
C13_VisibleUntilTTL ==
    /\ \A c \in live :
           now - c.timestamp <= c.ttl =>
               keyOf(c) \in DOMAIN cache /\ cache[keyOf(c)].value = c.value
    /\ (ret.op = "get" /\ ret.was # Null) =>
           IF ret.at - ret.was.timestamp <= ret.was.ttl
           THEN ret.result = ret.was.value
           ELSE ret.result = Null /\ ret.key \notin DOMAIN cache

\* the ttl of the entry a set call stores
storedTTL(c) == IF c.ttl = 0 THEN getDefaultTTL(c.namespace) ELSE c.ttl

\* C13, amended: with t the ttl argument of set(ns, id, v, ttl) when it is not
\* 0 and the default TTL of namespace ns when it is 0, get(ns, id) returns v
\* as long as now - timestamp <= t and the entry was not deleted, cleared,
\* overwritten or evicted; once now - timestamp > t, get returns not-found and
\* the entry is removed from the cache.
C13_VisibleUntilStoredTTL ==
    /\ \A c \in live :
           now - c.timestamp <= storedTTL(c) =>
               keyOf(c) \in DOMAIN cache /\ cache[keyOf(c)].value = c.value
    /\ (ret.op = "get" /\ ret.was # Null) =>
           IF ret.at - ret.was.timestamp <= storedTTL(ret.was)
           THEN ret.result = ret.was.value
           ELSE ret.result = Null /\ ret.key \notin DOMAIN cache

\* C13 witness: a get on an entry set with a ttl that has run out, which the
\* get itself removed.
C13_Witness ==
    /\ ret.op = "get"
    /\ ret.was # Null
    /\ ret.was.ttl # 0
    /\ ~ret.was.purged
    /\ ret.at - ret.was.timestamp > ret.was.ttl
    /\ ret.result = Null

\* C14: when set is called for a key not yet in the cache while the cache
\* holds maxCacheSize entries, exactly one existing entry is removed, the one
\* with the fewest successful get calls since its last set, ties going to the
\* first such entry in iteration order; no entry is evicted when the key
\* already exists or the cache is below capacity.
C14_EvictsFewestHits ==
    /\ Cardinality(DOMAIN cache) <= cacheConfig.maxCacheSize
    /\ ret.op = "set" =>
           LET before == ret.entriesBefore
               keysBefore == {before[i][1] : i \in 1..Len(before)}
           IN  /\ DOMAIN cache = (keysBefore \ ret.evicted) \cup {ret.key}
               /\ IF ret.sizeBefore = cacheConfig.maxCacheSize /\ ~ret.existed
                  THEN \E i \in 1..Len(before) :
                          /\ ret.evicted = {before[i][1]}
                          /\ \A j \in 1..Len(before) : before[j][2] >= before[i][2]
                          /\ \A j \in 1..(i - 1) : before[j][2] > before[i][2]
                  ELSE ret.evicted = {}

\* C14 witness: a set on a full cache that evicted the second entry, the
\* first one having been read since it was set.
C14_Witness ==
    /\ ret.op = "set"
    /\ ret.sizeBefore = cacheConfig.maxCacheSize
    /\ ~ret.existed
    /\ ret.entriesBefore[1][2] > 0
    /\ ret.evicted = {ret.entriesBefore[2][1]}

\* C35: in every state reachable by set, get, delete, clearNamespace, clear,
\* eviction and the expiry sweep, the cache holds at most maxCacheSize entries
\* and the access-counter map has exactly the keys of the entry map, each
\* once.
C35_SizeBoundAndSameKeys ==
    /\ Cardinality(DOMAIN cache) <= cacheConfig.maxCacheSize
    /\ countKeys(accessCount) = DOMAIN cache
    /\ Len(accessCount) = Cardinality(DOMAIN cache)

\* C35 witness: a set on a full cache evicted an entry and left the cache
\* full, with as many counters as entries.
C35_Witness ==
    /\ ret.op = "set"
    /\ ret.evicted # {}
    /\ Cardinality(DOMAIN cache) = cacheConfig.maxCacheSize
    /\ Len(accessCount) = cacheConfig.maxCacheSize

\* C15: clearNamespace(ns) removes exactly the entries that were set under
\* namespace ns, returns their number, and leaves every entry set under any
\* other namespace retrievable with its value; two distinct (namespace, id)
\* pairs never share a cache entry.
C15_NamespaceIsolation ==
    /\ \A c, d \in live :
           (~c.purged /\ ~d.purged /\ c # d) => keyOf(c) # keyOf(d)
    /\ ret.op = "clearNamespace" =>
           /\ ret.result =
                  Cardinality({c \in ret.liveBefore : c.namespace = ret.namespace})
           /\ \A c \in ret.liveBefore :
                  IF c.namespace = ret.namespace
                  THEN keyOf(c) \notin DOMAIN cache
                  ELSE /\ keyOf(c) \in DOMAIN cache
                       /\ cache[keyOf(c)].value = c.value

\* the messages two turns more than the history limit append
MaxTurnAdded == 2 * configMaxHistoryLength + 4

\* chat and ask requests of users U, overlapping, with enough turns for the
\* history limit to trim
TurnNext(U) ==
    \/ Tick
    \/ \E cmd \in {"chat", "ask"}, u \in U :
           ChatCommand(cmd, u, FALSE, FALSE, "", <<"U4F60">>, MaxInFlight + 1)
    \/ \E i \in 1..Len(requests) : ChatSent(i)
    \/ \E i \in 1..Len(requests), response \in Responses :
           ChatCompleted(i, response, MaxTurnAdded)
    \/ \E i \in 1..Len(requests) : ChatFailed(i)

-----------------------------------------------------------------------------
(* Properties of the commands *)

\* C19: every successful persona-switch command for a user leaves that user's
\* conversation history empty when the command returns; a persona-switch with
\* an unresolvable name leaves the history unchanged.
C19_SwitchClearsHistory ==
    ret.op = "persona-switch" =>
        IF ret.result
        THEN /\ ret.user \in DOMAIN conversations
             /\ conversations[ret.user].messages = << >>
        ELSE historyOf(conversations, ret.user) = ret.before

\* C19 witness: a persona-switch through an alias by a user whose history
\* held messages.
C19_Witness ==
    /\ ret.op = "persona-switch"
    /\ ret.result
    /\ ret.before # << >>
    /\ userStates[ret.user] = "catgirl"

\* C24: chat requests for one conversation key are processed one at a time:
\* of two requests in flight for the same key, the later-started one has not
\* built its prompt while the earlier one has neither appended its
\* user/assistant pair nor failed.
C24_OneRequestAtATimePerKey ==
    \A i, j \in 1..Len(requests) :
        (i < j /\ requests[i].user = requests[j].user)
            => requests[j].pc = "send"

\* C28: personas are never mixed in one context: after a successful
\* persona-switch command for user u, every message found in u's history was
\* produced by a chat request that started after the switch, also when a chat
\* request of u was awaiting its completion at the moment of the switch: a
\* request that started before the switch stores nothing in the history.
C28_NoMessageFromBeforeSwitch ==
    (ret.op = "completed" /\ ret.overtaken) =>
        Elements(ret.stored) \cap Elements(historyOf(conversations, ret.user)) = {}

\* C31: a failed turn stores nothing: when the completion call of a chat or
\* ask request throws or returns no content, the step that ends the request
\* appends neither the user message nor an assistant message to any history.
C31_FailedTurnStoresNothing ==
    [][(\E i \in 1..Len(requests) :
            ChatFailed(i) \/ ChatCompleted(i, << >>, MaxTurnAdded))
          => /\ conversations' = conversations
             /\ added' = added]_vars

\* C31 witness: a request of a user whose history holds an earlier turn ended
\* with no content.
C31_Witness ==
    /\ ret.op = "completed"
    /\ ret.result = "no content"
    /\ historyOf(conversations, ret.user) # << >>

\* user, assistant, user, assistant, ...
alternates(messages) ==
    \A n \in 1..Len(messages) :
        messages[n].role = IF n % 2 = 1 THEN "user" ELSE "assistant"

\* C32: between handler steps (the two addMessage calls of a turn run without
\* an await between them), the stored history of every conversation key
\* driven by the chat and ask commands has even length and alternates user,
\* assistant starting with a user message, so messageCount = 2 x rounds,
\* also after the history limit trimmed it and with requests of the same key
\* interleaved.
C32_HistoryIsWholeTurns ==
    \A k \in DOMAIN conversations :
        LET messages == conversations[k].messages
        IN  /\ Len(messages) % 2 = 0
            /\ alternates(messages)
            /\ Len(messages) = 2 * rounds(messages)

\* C32 witness: a history that the limit has trimmed, at its full length,
\* while another request of the same key is awaiting its completion.
C32_Witness ==
    \E k \in DOMAIN conversations :
        /\ Len(added[k]) > Len(conversations[k].messages)
        /\ Len(conversations[k].messages) = 2 * configMaxHistoryLength
        /\ \E i \in 1..Len(requests) :
               requests[i].user = k /\ requests[i].pc = "complete"

\* C20: the reset option of the chat and ask commands clears a conversation
\* history only when the calling user is an administrator; for a
\* non-administrator the history is left unchanged.
C20_ResetOnlyForAdministrators ==
    (ret.op \in {"chat", "ask"} /\ ret.reset) =>
        IF ret.admin
        THEN ret.result = "reset" => historyOf(conversations, ret.user) = << >>
        ELSE historyOf(conversations, ret.user) = ret.before

-----------------------------------------------------------------------------
(* Properties of the error handler *)

InspectionCodes == {"DataInspectionFailed", "400-DataInspectionFailed"}

\* the failure kind the listed statuses and codes stand for, "" if none
kindOfStatus(status) ==
    CASE status = 401 -> "API_KEY_INVALID"
      [] status = 429 -> "API_RATE_LIMIT"
      [] status = 500 -> "API_SERVER_ERROR"
      [] status = 400 -> "API_PARAMETER_ERROR"
      [] OTHER -> ""

\* C25: handleApiError classifies every upstream failure by its HTTP status
\* or provider code: a data-inspection code gives API_DATA_INSPECTION_FAILED,
\* and otherwise status 401 gives API_KEY_INVALID, 429 API_RATE_LIMIT, 500
\* API_SERVER_ERROR and 400 API_PARAMETER_ERROR; a message containing
\* 'timeout' gives API_TIMEOUT, and only failures matching none of these give
\* UNKNOWN_ERROR.
C25_ClassifiedByStatusOrCode ==
    ret.op = "handleApiError" =>
        LET error == ret.error
            type == ret.result.type
        IN  /\ error.code \in InspectionCodes
                   => type = "API_DATA_INSPECTION_FAILED"
            /\ (error.code \notin InspectionCodes /\ kindOfStatus(error.status) # "")
                   => type = kindOfStatus(error.status)
            /\ type = "UNKNOWN_ERROR" =>
                   /\ kindOfStatus(error.status) = ""
                   /\ error.code \notin InspectionCodes
                   /\ ~includesTimeout(errorMessageOf(error))

-----------------------------------------------------------------------------
(* Properties of the performance monitor *)

\* C26: after any sequence of recordMetric calls for a command,
\* getStats(command) reports totalCalls equal to the number of calls,
\* successCalls + failedCalls = totalCalls, and averageDuration equal to the
\* rounded arithmetic mean of all durations recorded for that command.
C26_StatsMatchRecordedCalls ==
    \A c \in DOMAIN recorded :
        /\ getStats(c) # Null
        /\ getStats(c).totalCalls = recorded[c].calls
        /\ getStats(c).successCalls + getStats(c).failedCalls = getStats(c).totalCalls
        /\ getStats(c).averageDuration
               = roundedMean(recorded[c].sum, recorded[c].calls)

-----------------------------------------------------------------------------
(* Properties of the token estimator *)

\* characters that are neither CJK ideographs nor part of a word run
leftoverChars(t) ==
    Cardinality({i \in 1..Len(t) : t[i] \notin CJK /\ t[i] \notin Letters})

\* ceil(2c + 1.3w + 0.5o) over the three disjoint classes
weightedEstimate(t) ==
    CeilTenths(20 * chineseChars(t) + 13 * englishWords(t) + 5 * leftoverChars(t))

\* C8: the estimator returns ceil(2*c + 1.3*w + 0.5*o), c the number of CJK
\* ideographs, w the number of ASCII word runs, o the number of characters
\* that are neither; so the empty string gives 0, n CJK characters give 2n,
\* and two CJK characters followed by 'hello' give 6.
C8_WeightedEstimate ==
    est # -1 =>
        /\ est >= 0
        /\ est = weightedEstimate(text)
        /\ (text = NiHaoHello => est = 6)

-----------------------------------------------------------------------------
(* Initial states and specifications *)

InitStores ==
    /\ now = 0
    /\ conversations = << >>
    /\ added = [k \in Keys |-> << >>]
    /\ accessed = [k \in Keys |-> -1]
    /\ groupSessions = << >>
    /\ userGroupMap = << >>
    /\ personas = initialPersonas
    /\ userPersonas = << >>
    /\ userStates = << >>
    /\ personaAliases = initializePersonaAliases(initialPersonas)
    /\ ret = NoRet
    /\ cache = << >>
    /\ accessCount = << >>
    /\ live = {}
    /\ requests = << >>
    /\ metrics = << >>
    /\ stats = << >>
    /\ recorded = << >>
    /\ saveQueue = << >>
    /\ saveInterval = FALSE
    /\ flushes = << >>
    /\ unsaved = {}
    /\ saveCalls = 0
    /\ dbConversations = << >>
    /\ database = << >>
    /\ loaded = [k \in DbKeys |-> Null]
    /\ models = initialModels
    /\ currentModel = PluginModel
    /\ retryRun = NoRetry

\* no error has been handed to the error handler
NoApiError == [status |-> 0, code |-> "", dataMessage |-> "", message |-> ""]

Init ==
    /\ InitStores
    /\ config \in Configs
    /\ text = << >>
    /\ est = -1
    /\ apiError = NoApiError

EstimatorInit ==
    /\ InitStores
    /\ config \in {c \in Configs : c.enableContext /\ c.maxContextTokens = 0}
    /\ text \in TextInputs
    /\ est = -1
    /\ apiError = NoApiError

\* the conversation store used under one key
Spec == Init /\ [][ConvNext({"u1"})]_vars

EstimatorSpec == EstimatorInit /\ [][Estimate]_vars

SingleConfigInit ==
    /\ InitStores
    /\ config \in {c \in Configs : c.enableContext /\ c.maxContextTokens = MaxBudget}
    /\ text = << >>
    /\ est = -1
    /\ apiError = NoApiError

\* group membership and the reverse index, over two groups and two users
MembershipSpec == SingleConfigInit /\ [][MembershipNext(Groups, Users)]_vars

\* configured default persona names: a built-in other than 'default', the
\* name 'default', a name no persona has, and none
DefaultPersonaInputs == {"default", "catgirl", "nobody", ""}

PersonaConfigs ==
    {[c EXCEPT !.defaultPersona = d] :
        c \in {x \in Configs : x.enableContext /\ x.maxContextTokens = MaxBudget},
        d \in DefaultPersonaInputs}

PersonaInit ==
    /\ InitStores
    /\ config \in PersonaConfigs
    /\ text = << >>
    /\ est = -1
    /\ apiError = NoApiError

\* the persona manager
PersonaSpec == PersonaInit /\ [][PersonaNext]_vars

\* the persona manager as the plugin configures it (defaultPersona 'default')
SelectionSpec == SingleConfigInit /\ [][PersonaNext]_vars

\* the conversation store with its statistics accessors
StatsSpec == SingleConfigInit /\ [][ConvNext({"u1"}) \/ StatsNext({"u1"})]_vars

\* the conversation store under two keys with the sweep
CleanupSpec == SingleConfigInit /\ [][CleanupNext(Keys)]_vars

\* the persona-switch, chat and ask commands of one user
CommandSpec == SingleConfigInit /\ [][CommandNext(CommandUsers)]_vars

\* overlapping chat requests of one user
OverlapSpec == SingleConfigInit /\ [][OverlapNext(CommandUsers)]_vars

\* the cache under two keys, with every ttl argument
CacheSpec == SingleConfigInit /\ [][CacheNext(PlainPairs, CacheValues, TTLInputs)]_vars

\* the cache under more keys than it holds
CacheEvictSpec ==
    SingleConfigInit /\ [][CacheNext(ThreePairs, {[value |-> "test"]}, {ShortTTL})]_vars

\* the cache under namespaces and ids that contain the separator
CacheColonSpec == SingleConfigInit /\ [][CacheNext(ColonPairs, CacheValues, {0})]_vars

\* the conversation store under two keys
IsolationSpec ==
    SingleConfigInit
    /\ [][ConvNextOver(Keys, {[role |-> "user", content |-> <<"U4F60">>]},
                       {<< >>}, {<<" ">>})]_vars

\* one group filled to its capacity
CapacitySpec == SingleConfigInit /\ [][CapacityNext("g1")]_vars

ErrorInit ==
    /\ InitStores
    /\ config \in {c \in Configs : c.enableContext /\ c.maxContextTokens = MaxBudget}
    /\ text = << >>
    /\ est = -1
    /\ apiError \in ApiErrors

\* the error handler on one upstream failure
ErrorSpec == ErrorInit /\ [][HandleApiError]_vars

\* the performance monitor
MonitorSpec == SingleConfigInit /\ [][MonitorNext]_vars

\* one group reached again after idle periods
RevivalSpec == SingleConfigInit /\ [][RevivalNext({"g1"}, {"u1"})]_vars

\* overlapping chat and ask turns of one user
TurnSpec == SingleConfigInit /\ [][TurnNext(CommandUsers)]_vars

\* the two message lists of one group
MirrorSpec == SingleConfigInit /\ [][MirrorNext({"g1"})]_vars

\* the delayed saves of two users' memories
SaveSpec == SingleConfigInit /\ [][SaveNext]_vars /\ SaveFairness

\* the conversation store with persistence, one key
PersistenceSpec == SingleConfigInit /\ [][PersistenceNext]_vars

\* the model manager as the plugin constructs it
ModelSpec == SingleConfigInit /\ [][ModelNext]_vars

\* one call of retry
RetrySpec == SingleConfigInit /\ [][RetryNext]_vars

\* the shared context of one group
GroupContextSpec == Init /\ [][GroupContextNext({"g1"})]_vars

====
